---------------------------- MODULE Spec2Model ----------------------------
(***************************************************************************)
(* A model of ITKIOScanco: the primitive codec of                          *)
(* itkScancoDataManipulation.cxx (little-endian integers, VMS dates,       *)
(* version detection, string padding), the ISQ and AIM header codecs of    *)
(* itkISQHeaderIO.cxx and itkAIMHeaderIO.cxx, and the ScancoImageIO        *)
(* facade of itkScancoImageIO.cxx.                                         *)
(*                                                                         *)
(* TLC's integers are 32 bits wide, so every 64-bit quantity of the code   *)
(* (uint64_t, int64_t) is a sequence of 8 bytes, least significant first,  *)
(* and the 64-bit arithmetic of the code is done on those bytes modulo     *)
(* 2^64.                                                                   *)
(***************************************************************************)
EXTENDS Integers, Sequences, FiniteSets, TLC

VARIABLES
  session,      \* which component this behaviour exercises
  step,         \* position of the caller in its sequence of calls
  fn,           \* primitive codec: the function pair under evaluation
  input,        \* primitive codec: the argument of the encoder / detector
  target,       \* primitive codec: the byte buffer the encoder writes
  output        \* primitive codec: what the decoder / detector returns

vars == <<session, step, fn, input, target, output>>

codecVars == <<fn, input, target, output>>

None == "none"

\* a local variable: value is computed once and body is applied to it
Local(value, body(_)) == CHOOSE result \in {body(x) : x \in {value}} : TRUE

-----------------------------------------------------------------------------
(* C integer arithmetic *)

\* C's integer division truncates toward zero
CDiv(a, b) ==
  IF (a >= 0) = (b > 0) THEN (IF a >= 0 THEN a ELSE -a) \div (IF b > 0 THEN b ELSE -b)
  ELSE -((IF a >= 0 THEN a ELSE -a) \div (IF b > 0 THEN b ELSE -b))

TwoTo8 == 256
TwoTo16 == 65536
TwoTo24 == 16777216

\* the value of 4 bytes as a 32-bit two's complement int
S32FromBytes(b) ==
  b[1] + TwoTo8 * b[2] + TwoTo16 * b[3]
    + TwoTo24 * (IF b[4] >= 128 THEN b[4] - 256 ELSE b[4])

\* byte k (0..3) of a 32-bit int: (unsigned char)(data >> 8k)
ByteOfInt(data, k) ==
  LET sh == IF k = 0 THEN 1 ELSE IF k = 1 THEN TwoTo8
            ELSE IF k = 2 THEN TwoTo16 ELSE TwoTo24
  IN  (data \div sh) % 256

-----------------------------------------------------------------------------
(* 64-bit unsigned arithmetic on 8 little-endian bytes *)

\* conversion of an int to uint64_t (sign extension)
U64FromInt(n) ==
  [k \in 1..8 |-> IF k <= 4 THEN ByteOfInt(n, k - 1)
                  ELSE IF n < 0 THEN 255 ELSE 0]

RECURSIVE AddCarry(_, _, _, _)
AddCarry(a, b, k, carry) ==
  IF k > 8 THEN <<>>
  ELSE LET s == a[k] + b[k] + carry
       IN  <<s % 256>> \o AddCarry(a, b, k + 1, s \div 256)

U64Add(a, b) == AddCarry(a, b, 1, 0)

U64Neg(a) == U64Add([k \in 1..8 |-> 255 - a[k]], U64FromInt(1))

U64Sub(a, b) == U64Add(a, U64Neg(b))

RECURSIVE MulCarry(_, _, _, _)
MulCarry(a, c, k, carry) ==
  IF k > 8 THEN <<>>
  ELSE LET s == a[k] * c + carry
       IN  <<s % 256>> \o MulCarry(a, c, k + 1, s \div 256)

\* a * c modulo 2^64, for 0 <= c < 2^22
U64MulSmall(a, c) == MulCarry(a, c, 1, 0)

RECURSIVE DivRem(_, _, _, _)
DivRem(a, c, k, rem) ==
  IF k < 1 THEN <<>>
  ELSE LET cur == rem * 256 + a[k]
       IN  DivRem(a, c, k - 1, cur % c) \o <<cur \div c>>

\* a / c, for 0 < c < 2^22
U64DivSmall(a, c) == DivRem(a, c, 8, 0)

\* (uint64_t) << 32
U64Shl32(a) == [k \in 1..8 |-> IF k <= 4 THEN 0 ELSE a[k - 4]]

\* static_cast<int>(uint64_t): the low 32 bits
U64ToInt(a) == S32FromBytes(<<a[1], a[2], a[3], a[4]>>)

\* static_cast<int>(uint64_t >> 32): the high 32 bits
U64HighInt(a) == S32FromBytes(<<a[5], a[6], a[7], a[8]>>)

-----------------------------------------------------------------------------
(* little-endian integers *)

\* the mutant of EncodeInt: the two high bytes in big-endian order
EncodeIntSwapped(data) ==
  <<ByteOfInt(data, 0), ByteOfInt(data, 1), ByteOfInt(data, 3), ByteOfInt(data, 2)>>

EncodeInt(data) ==
  <<ByteOfInt(data, 0), ByteOfInt(data, 1), ByteOfInt(data, 2), ByteOfInt(data, 3)>>

DecodeInt(data) == S32FromBytes(<<data[1], data[2], data[3], data[4]>>)

-----------------------------------------------------------------------------
(* VMS dates *)

julianOffset == 2400001
millisPerSecond == 1000
millisPerMinute == 60 * 1000
millisPerHour == 3600 * 1000
millisPerDay == 3600 * 24 * 1000

monthStrings ==
  <<"XXX", "JAN", "FEB", "MAR", "APR", "MAY", "JUN",
    "JUL", "AUG", "SEP", "OCT", "NOV", "DEC">>

\* monthIndex.find(monthStr); a token that is not in the map gives month 0
monthIndex(monthStr) ==
  IF \E m \in 1..13 : monthStrings[m] = monthStr
  THEN (CHOOSE m \in 1..13 : monthStrings[m] = monthStr) - 1
  ELSE 0

\* a * millisPerDay and a / millisPerDay, in two steps that fit 32 bits
U64MulMillisPerDay(a) ==
  U64MulSmall(U64MulSmall(a, millisPerSecond), millisPerDay \div millisPerSecond)

U64DivMillisPerDay(a) ==
  U64DivSmall(U64DivSmall(a, millisPerSecond), millisPerDay \div millisPerSecond)

U64MulMillisPerHour(a) ==
  U64MulSmall(U64MulSmall(a, millisPerSecond), millisPerHour \div millisPerSecond)

U64DivMillisPerHour(a) ==
  U64DivSmall(U64DivSmall(a, millisPerSecond), millisPerHour \div millisPerSecond)

\* julianOffset * millisPerDay
VMSEpochMillis == U64MulMillisPerDay(U64FromInt(julianOffset))

GregorianDateFromJulian(julianDay) ==
  LET ell0 == julianDay + 68569
      n    == CDiv(4 * ell0, 146097)
      ell1 == ell0 - CDiv(146097 * n + 3, 4)
      i    == CDiv(4000 * (ell1 + 1), 1461001)
      ell2 == ell1 - CDiv(1461 * i, 4) + 31
      j    == CDiv(80 * ell2, 2447)
      ell3 == CDiv(j, 11)
  IN  [day   |-> ell2 - CDiv(2447 * j, 80),
       month |-> j + 2 - (12 * ell3),
       year  |-> 100 * (n - 49) + i + ell3]

DecodeDate(data) ==
  LET d1    == DecodeInt(SubSeq(data, 1, 4))
      d2    == DecodeInt(SubSeq(data, 5, 8))
      tVMS  == U64Add(U64FromInt(d1), U64Shl32(U64FromInt(d2)))
      time0 == U64Add(U64DivSmall(tVMS, 10000), VMSEpochMillis)
      julianDay == U64ToInt(U64DivMillisPerDay(time0))
      time1 == U64Sub(time0, U64MulMillisPerDay(U64FromInt(julianDay)))
      g     == GregorianDateFromJulian(julianDay)
      hour  == U64ToInt(U64DivMillisPerHour(time1))
      time2 == U64Sub(time1, U64MulMillisPerHour(U64FromInt(hour)))
      minute == U64ToInt(U64DivSmall(time2, millisPerMinute))
      time3 == U64Sub(time2, U64MulSmall(U64FromInt(minute), millisPerMinute))
      second == U64ToInt(U64DivSmall(time3, millisPerSecond))
      time4 == U64Sub(time3, U64MulSmall(U64FromInt(second), millisPerSecond))
  IN  [year |-> g.year, month |-> g.month, day |-> g.day, hour |-> hour,
       minute |-> minute, second |-> second, millis |-> U64ToInt(time4)]

\* snprintf "%d-%s-%d %02d:%02d:%02d.%03d": the text, as its seven tokens
DateToString(year, month, day, hour, minute, second, millis) ==
  [day |-> day % 100, mon |-> monthStrings[month + 1], year |-> year % 10000,
   hour |-> hour % 100, minute |-> minute % 100, second |-> second % 100,
   millis |-> millis % 1000]

\* static_cast<int>(365.25 * (year + 4716)) + static_cast<int>(30.6001 * (month + 1))
\*   + day + b - 1524.5, converted to int
julianDayFromDate(year0, month0, day) ==
  LET year  == IF month0 <= 2 THEN year0 - 1 ELSE year0
      month == IF month0 <= 2 THEN month0 + 12 ELSE month0
      a == CDiv(year, 100)
      b == 2 - a + CDiv(a, 4)
      sum == CDiv(1461 * (year + 4716), 4) + CDiv(306001 * (month + 1), 10000) + day + b
  IN  \* sum - 1524.5 is a double; the conversion truncates toward zero
      IF sum >= 1525 THEN sum - 1525 ELSE sum - 1524

\* the text does not match "%d-%3s-%d %d:%d:%d.%d"
BadDateString ==
  [day |-> 0, mon |-> "not a date", year |-> 0, hour |-> 0, minute |-> 0,
   second |-> 0, millis |-> 0]

EncodeDateFromString(dateString) ==
  LET month == monthIndex(dateString.mon)
      timestamp == dateString.hour * millisPerHour + dateString.minute * millisPerMinute
                     + dateString.second * millisPerSecond + dateString.millis
      julianDay == julianDayFromDate(dateString.year, month, dateString.day)
      time == U64Add(U64MulMillisPerDay(U64FromInt(julianDay)), U64FromInt(timestamp))
      tVMS == U64MulSmall(U64Sub(time, VMSEpochMillis), 10000)
  IN  EncodeInt(U64ToInt(tVMS)) \o EncodeInt(U64HighInt(tVMS))

-----------------------------------------------------------------------------
(* 64-bit integers.  An int64_t argument is three chunks, n = a * 2^48 +   *)
(* b * 2^24 + c with a signed and 0 <= b, c < 2^24, so that every shift    *)
(* of the encoder is arithmetic TLC can do.                                *)

\* (unsigned char)(data >> 8k), k = 0..7
ByteOfInt64(data, k) ==
  IF k <= 2 THEN ByteOfInt(data.c, k)
  ELSE IF k <= 5 THEN ByteOfInt(data.b, k - 3)
  ELSE ByteOfInt(data.a, k - 6)

EncodeInt64(data) == [k \in 1..8 |-> ByteOfInt64(data, k - 1)]

\* declared in itkScancoDataManipulation.h and called by the AIM reader; its
\* body is not part of the sources: "little-endian (8 bytes, same pattern extended)"
DecodeInt64(data) ==
  [c |-> data[1] + TwoTo8 * data[2] + TwoTo16 * data[3],
   b |-> data[4] + TwoTo8 * data[5] + TwoTo16 * data[6],
   a |-> data[7] + TwoTo8 * (IF data[8] >= 128 THEN data[8] - 256 ELSE data[8])]

-----------------------------------------------------------------------------
(* version detection *)

\* the characters of the version tags, as their ASCII codes
ISQVersionString ==
  <<67, 84, 68, 65, 84, 65, 45, 72, 69, 65, 68, 69, 82, 95, 86, 49>>
AIM020String ==
  <<65, 73, 77, 68, 65, 84, 65, 95, 86, 48, 50, 48, 32, 32, 32>>
AIM030String ==
  <<65, 73, 77, 68, 65, 84, 65, 95, 86, 48, 51, 48, 32, 32, 32>>

\* strncmp(s1, s2, n) == 0, with the terminating NUL of a literal at Len + 1
RECURSIVE StrNEqFrom(_, _, _, _)
StrNEqFrom(s1, s2, n, i) ==
  IF i > n THEN TRUE
  ELSE LET c1 == IF i <= Len(s1) THEN s1[i] ELSE 0
           c2 == IF i <= Len(s2) THEN s2[i] ELSE 0
       IN  IF c1 # c2 THEN FALSE
           ELSE IF c1 = 0 THEN TRUE
           ELSE StrNEqFrom(s1, s2, n, i + 1)

strncmpEq(s1, s2, n) == Local(s1, LAMBDA s : StrNEqFrom(s, s2, n, 1))

\* strcmp(header, literal) == 0: the comparison ends at the literal's NUL
strcmpEq(header, literal) ==
  Local(header, LAMBDA s : StrNEqFrom(s, literal, Len(literal) + 1, 1))

UNRECOGNIZED == 0
CTHEADER == 1
AIM_020 == 2
AIM_030 == 3

\* CheckVersion of itkScancoDataManipulation.cxx, used by ISQHeaderIO and AIMHeaderIO
CheckVersion(header) ==
  IF strncmpEq(header, ISQVersionString, 16) THEN CTHEADER
  ELSE IF strcmpEq(header, AIM030String) THEN AIM_030
  ELSE AIM_020

\* ScancoImageIO::CheckVersion, used by CanReadFile and ReadImageInformation
ImageIOCheckVersion(header) ==
  IF strncmpEq(header, ISQVersionString, 16) THEN CTHEADER
  ELSE IF strcmpEq(header, AIM030String) THEN AIM_030
  ELSE LET preHeaderSize == DecodeInt(SubSeq(header, 1, 4))
           imageHeaderSize == DecodeInt(SubSeq(header, 5, 8))
       IN  IF preHeaderSize = 20 /\ imageHeaderSize = 140 THEN AIM_020
           ELSE UNRECOGNIZED

-----------------------------------------------------------------------------
(* Strings and buffers.  A C string is the sequence of its character codes *)
(* before the terminating NUL; a buffer is a sequence of bytes and offsets *)
(* into it count from 0 as in the code.                                    *)

Space == 32

Spaces(n) == [k \in 1..n |-> Space]

Zeros(n) == [k \in 1..n |-> 0]

Min(a, b) == IF a < b THEN a ELSE b

\* the bytes PadString stores at dest, dest + 1, ...: the first loop copies
\* min(strlen(source), length) characters, the second appends length spaces
PadString(source, length) ==
  SubSeq(source, 1, Min(Len(source), length)) \o Spaces(length)

\* while (dp != dest && dp[-1] == ' ') --dp;
StripTrailing(str) ==
  SubSeq(str, 1, Len(str) - Cardinality({k \in 1..Len(str) :
                                           \A j \in k..Len(str) : str[j] = Space}))

RECURSIVE CStringAt(_, _, _)
\* the characters at buffer + offset up to a NUL, at most length of them
CStringAt(buffer, offset, length) ==
  IF length = 0 \/ buffer[offset + 1] = 0 THEN <<>>
  ELSE <<buffer[offset + 1]>> \o CStringAt(buffer, offset + 1, length - 1)

\* StripString(dest, buffer + offset, length): the string left in dest
StripString(buffer, offset, length) ==
  Local(CStringAt(buffer, offset, length), LAMBDA copied : StripTrailing(copied))

\* the buffer after bytes are stored at buffer + offset
Store(buffer, offset, bytes) ==
  SubSeq(buffer, 1, offset)
    \o SubSeq(bytes, 1, Min(Len(bytes), Len(buffer) - offset))
    \o SubSeq(buffer, offset + Len(bytes) + 1, Len(buffer))

\* the length bytes at buffer + offset
Load(buffer, offset, length) == SubSeq(buffer, offset + 1, offset + length)

-----------------------------------------------------------------------------
(* Doubles whose arithmetic the header code uses (x * 1e3, k * 1e-3,       *)
(* physdim / pixdim) are exact fractions n / d with d > 0 in lowest terms. *)

RECURSIVE GCD(_, _)
GCD(a, b) == IF b = 0 THEN a ELSE Local(a % b, LAMBDA r : GCD(b, r))

Abs(a) == IF a < 0 THEN -a ELSE a

Frac(n, d) ==
  LET g == IF n = 0 /\ d = 0 THEN 1 ELSE GCD(Abs(n), Abs(d))
  IN  IF d < 0 THEN [n |-> -(n \div g), d |-> (-d) \div g]
      ELSE [n |-> n \div g, d |-> d \div g]

FracMul(x, y) == Frac(x.n * y.n, x.d * y.d)

FracDiv(x, y) == Frac(x.n * y.d, x.d * y.n)

FracAdd(x, y) == Frac(x.n * y.d + y.n * x.d, x.d * y.d)

FracLess(x, y) == x.n * y.d < y.n * x.d

\* static_cast<int>(x): truncation toward zero
FracToInt(x) == CDiv(x.n, x.d)

\* k * 1e-3
Milli(k) == Frac(k, 1000)

\* (int)(x * 1e3)
ToMilli(x) == FracToInt(FracMul(x, Frac(1000, 1)))

-----------------------------------------------------------------------------
(* Doubles that are only stored and loaded (the calibration record) are    *)
(* their IEEE-754 bit pattern v.l, 8 bytes, least significant first.       *)

\* the 11-bit exponent field
ExponentField(d) == (d[7] \div 16) + 16 * (d[8] % 128)

IsZeroDouble(d) == \A k \in 1..8 : d[k] = 0 \/ (k = 8 /\ d[k] = 128)

\* data / 0.25
DoubleTimes4(d) ==
  LET e == ExponentField(d)
  IN  IF IsZeroDouble(d) \/ e = 2047 THEN d
      ELSE IF e >= 1 /\ e <= 2044 THEN U64Add(d, <<0, 0, 0, 0, 0, 0, 32, 0>>)
      ELSE IF e >= 2045 THEN <<0, 0, 0, 0, 0, 0, 240, 127 + 128 * (d[8] \div 128)>>
      ELSE U64Add(U64MulSmall([d EXCEPT ![8] = 0], IF d[7] >= 8 THEN 2 ELSE 4),
                  <<0, 0, 0, 0, 0, 0, IF d[7] >= 8 THEN 16 ELSE 0, 128 * (d[8] \div 128)>>)

\* v.d * 0.25; below the normal range the quotient is rounded to nearest, ties
\* to even
DoubleQuarter(d) ==
  IF IsZeroDouble(d) \/ ExponentField(d) = 2047 THEN d
  ELSE IF ExponentField(d) >= 3 THEN U64Sub(d, <<0, 0, 0, 0, 0, 0, 32, 0>>)
  ELSE Local([d EXCEPT ![7] = (d[7] % 16) + (IF ExponentField(d) = 0 THEN 0 ELSE 16),
                       ![8] = 0], LAMBDA significand :
         Local(IF ExponentField(d) = 2 THEN 2 ELSE 4, LAMBDA divisor :
           Local(U64DivSmall(significand, divisor), LAMBDA quotient :
             [(IF \/ 2 * (significand[1] % divisor) > divisor
                  \/ /\ 2 * (significand[1] % divisor) = divisor
                     /\ quotient[1] % 2 = 1
               THEN U64Add(quotient, U64FromInt(1)) ELSE quotient)
                EXCEPT ![8] = 128 * (d[8] \div 128)])))

EncodeDouble(data) ==
  LET v == DoubleTimes4(data)
  IN  <<v[7], v[8], v[5], v[6], v[3], v[4], v[1], v[2]>>

DecodeDouble(cp) ==
  DoubleQuarter(<<cp[7], cp[8], cp[5], cp[6], cp[3], cp[4], cp[1], cp[2]>>)

-----------------------------------------------------------------------------
(* A float is its IEEE-754 bit pattern v.i, 4 bytes, least significant      *)
(* first; the 31 bits below the sign are a number.                          *)

\* data / 0.25, converted to float: the exponent grows by 2, a subnormal is
\* shifted, the two highest binades overflow to infinity
FloatTimes4(f) ==
  Local(f[1] + TwoTo8 * f[2] + TwoTo16 * f[3] + TwoTo24 * (f[4] % 128), LAMBDA bits :
    Local(IF bits = 0 \/ bits \div (TwoTo24 \div 2) = 255 THEN bits
          ELSE IF bits \div (TwoTo24 \div 2) >= 253 THEN 255 * (TwoTo24 \div 2)
          ELSE IF bits \div (TwoTo24 \div 2) >= 1 THEN bits + TwoTo24
          ELSE IF bits >= TwoTo24 \div 4 THEN (2 * bits) + (TwoTo24 \div 2)
          ELSE 4 * bits, LAMBDA r :
      <<ByteOfInt(r, 0), ByteOfInt(r, 1), ByteOfInt(r, 2),
        ByteOfInt(r, 3) + 128 * (f[4] \div 128)>>))

\* 0.25 * v.f, converted to float: below the normal range the quotient is
\* rounded to nearest, ties to even
FloatQuarter(f) ==
  Local(f[1] + TwoTo8 * f[2] + TwoTo16 * f[3] + TwoTo24 * (f[4] % 128), LAMBDA bits :
    Local(IF bits = 0 \/ bits \div (TwoTo24 \div 2) = 255 THEN bits
          ELSE IF bits \div (TwoTo24 \div 2) >= 3 THEN bits - TwoTo24
          ELSE LET e == bits \div (TwoTo24 \div 2)
                   significand == IF e = 0 THEN bits
                                  ELSE (TwoTo24 \div 2) + (bits % (TwoTo24 \div 2))
                   divisor == IF e = 2 THEN 2 ELSE 4
                   quotient == significand \div divisor
               IN  IF \/ 2 * (significand % divisor) > divisor
                      \/ 2 * (significand % divisor) = divisor /\ quotient % 2 = 1
                   THEN quotient + 1 ELSE quotient, LAMBDA r :
      <<ByteOfInt(r, 0), ByteOfInt(r, 1), ByteOfInt(r, 2),
        ByteOfInt(r, 3) + 128 * (f[4] \div 128)>>))

\* the mutant of EncodeFloat: the bytes of v.i in little-endian order
EncodeFloatLittleEndian(data) == FloatTimes4(data)

EncodeFloat(data) ==
  Local(FloatTimes4(data), LAMBDA v : <<v[3], v[4], v[1], v[2]>>)

DecodeFloat(cp) == FloatQuarter(<<cp[3], cp[4], cp[1], cp[2]>>)

-----------------------------------------------------------------------------
(* The ISQ header codec (itkISQHeaderIO.cxx).  headerData is a record with *)
(* the fields of itkScancoHeaderData; dates are the items of the date      *)
(* text; the file is the sequence of bytes written to the stream.          *)

ScancoHeaderBlockSize == 512

\* sizeof(ISQCalibrationHeaderBlock): three blocks
CalibrationHeaderSize == 3 * ScancoHeaderBlockSize

\* "MultiHeader     "
MultiHeaderString == <<77, 117, 108, 116, 105, 72, 101, 97, 100, 101, 114, 32, 32, 32, 32, 32>>

\* "Calibration     "
CalibrationString == <<67, 97, 108, 105, 98, 114, 97, 116, 105, 111, 110, 32, 32, 32, 32, 32>>

RECURSIVE StoreFrom(_, _, _)
StoreFrom(buffer, stores, i) ==
  IF i > Len(stores) THEN buffer
  ELSE Local(Store(buffer, stores[i][1], stores[i][2]),
             LAMBDA stored : StoreFrom(stored, stores, i + 1))

\* the stores of a function body, in program order
StoreAll(buffer, stores) == Local(stores, LAMBDA s : StoreFrom(buffer, s, 1))

\* the first block, as ISQHeaderIO::WriteHeader fills it
ISQEncodedHeaderBlock(h, imageSize) ==
  StoreAll(Zeros(ScancoHeaderBlockSize),
    << <<0, PadString(h.m_Version, 16)>>,
       <<16, EncodeInt(3)>>,
       <<20, EncodeInt(imageSize)>>,
       <<24, EncodeInt(imageSize \div ScancoHeaderBlockSize)>>,
       <<28, EncodeInt(h.m_PatientIndex)>>,
       <<32, EncodeInt(h.m_ScannerID)>>,
       <<36, EncodeDateFromString(h.m_CreationDate)>> >>
    \o [i \in 1..3 |-> <<44 + 4 * (i - 1), EncodeInt(h.m_PixelData.m_Dimensions[i])>>]
    \o [i \in 1..3 |->
          <<56 + 4 * (i - 1),
            EncodeInt(ToMilli(FracMul(h.m_PixelData.m_Spacing[i],
                                      Frac(h.m_PixelData.m_Dimensions[i], 1))))>>]
    \o << <<68, EncodeInt(ToMilli(h.m_SliceThickness))>>,
          <<72, EncodeInt(ToMilli(h.m_SliceIncrement))>>,
          <<76, EncodeInt(ToMilli(h.m_StartPosition))>>,
          <<80, EncodeInt(FracToInt(h.m_DataRange[1]))>>,
          <<84, EncodeInt(FracToInt(h.m_DataRange[2]))>>,
          <<88, EncodeInt(FracToInt(h.m_MuScaling))>>,
          <<92, EncodeInt(h.m_NumberOfSamples)>>,
          <<96, EncodeInt(h.m_NumberOfProjections)>>,
          <<100, EncodeInt(ToMilli(h.m_ScanDistance))>>,
          <<104, EncodeInt(h.m_ScannerType)>>,
          <<108, EncodeInt(ToMilli(h.m_SampleTime))>>,
          <<112, EncodeInt(h.m_MeasurementIndex)>>,
          <<116, EncodeInt(h.m_Site)>>,
          <<120, EncodeInt(ToMilli(h.m_ReferenceLine))>>,
          <<124, EncodeInt(h.m_ReconstructionAlg)>>,
          <<128, PadString(h.m_PatientName, 40)>>,
          <<168, EncodeInt(ToMilli(h.m_Energy))>>,
          <<172, EncodeInt(ToMilli(h.m_Intensity))>>,
          <<176, Zeros(83 * 4)>>,
          <<508, EncodeInt(4)>> >>)

\* the mutant of ISQExtendedHeader: the MultiHeader block alone is written
MultiHeaderBlockOnly(h) ==
  Store(Zeros(ScancoHeaderBlockSize), 8, MultiHeaderString)

\* what ISQHeaderIO::WriteExtendedHeader writes after the first block: the
\* MultiHeader block and the ISQCalibrationHeaderBlock
ISQExtendedHeader(h) ==
  Store(Zeros(ScancoHeaderBlockSize), 8, MultiHeaderString)
    \o StoreAll(Zeros(CalibrationHeaderSize),
         << <<136, CalibrationString>>,
            <<540, PadString(h.m_CalibrationData, 64)>>,
            <<152, EncodeInt(2)>>,
            <<1144, EncodeInt(h.m_RescaleType)>>,
            <<1160, PadString(h.m_RescaleUnits, 16)>>,
            <<1176, EncodeDouble(h.m_RescaleSlope)>>,
            <<1184, EncodeDouble(h.m_RescaleIntercept)>>,
            <<1200, EncodeDouble(h.m_MuWater)>> >>)

\* a writer that counts the MultiHeader block only
MultiHeaderOnlyLength == ScancoHeaderBlockSize

\* ISQHeaderIO::WriteExtendedHeader: its return value
WriteExtendedHeaderLength == ScancoHeaderBlockSize + CalibrationHeaderSize

\* ISQHeaderIO::WriteHeader(outfile, imageSize): the stream and the value
\* returned, or the exception
ISQWriteHeader(h, imageSize) ==
  IF imageSize = 0 \/ h.m_CreationDate = BadDateString
  THEN [threw |-> TRUE, file |-> <<>>, bytesWritten |-> 0]
  ELSE [threw |-> FALSE,
        file |-> ISQEncodedHeaderBlock(h, imageSize) \o ISQExtendedHeader(h),
        bytesWritten |-> WriteExtendedHeaderLength + ScancoHeaderBlockSize]

\* DecodeInt(buffer + offset)
IntAt(buffer, offset) == DecodeInt(Load(buffer, offset, 4))

\* ISQHeaderIO::ReadDateValues
ReadDateValues(h, date) ==
  LET month == IF date.month > 12 \/ date.month < 1 THEN 0 ELSE date.month
      text == DateToString(date.year, month, date.day, date.hour, date.minute,
                           date.second, date.millis)
  IN  [h EXCEPT !.m_CreationDate = text, !.m_ModificationDate = text]

\* ISQHeaderIO::ReadDimensionData: the header and the value returned (isRAD)
ReadDimensionData(h, imageData) ==
  LET pixdim == [i \in 1..3 |-> IntAt(imageData, 44 + 4 * (i - 1))]
      physdim == [i \in 1..3 |-> IntAt(imageData, 56 + 4 * (i - 1))]
      isRAD == h.m_PixelData.m_ComponentType = 9 \/ physdim[3] = 0
      physical == [i \in 1..3 |->
                     IF isRAD THEN Frac(physdim[i], 1000000) ELSE Milli(physdim[i])]
  IN  [isRAD |-> isRAD,
       headerData |->
         [h EXCEPT
            !.m_ScanDimensionsPixels = pixdim,
            !.m_ScanDimensionsPhysical = physical,
            !.m_PixelData.m_Dimensions =
               [i \in 1..3 |-> IF pixdim[i] < 1 THEN 1 ELSE pixdim[i]],
            !.m_PixelData.m_Spacing =
               [i \in 1..3 |->
                  IF isRAD /\ i = 3 THEN Frac(1, 1)
                  ELSE FracDiv(physical[i], Frac(pixdim[i], 1))],
            !.m_PixelData.m_Origin = <<0, 0, 0>>]]

\* ISQHeaderIO::ReadRADHeader: the header and m_HeaderSize
ReadRADHeader(h, headerData) ==
  [headerData |->
     [h EXCEPT
        !.m_MeasurementIndex = IntAt(headerData, 68),
        !.m_DataRange = <<Frac(IntAt(headerData, 72), 1), Frac(IntAt(headerData, 76), 1)>>,
        !.m_MuScaling = Frac(IntAt(headerData, 80), 1),
        !.m_PatientName = StripString(headerData, 84, 40),
        !.m_ZPosition = Milli(IntAt(headerData, 124)),
        !.m_SampleTime = Milli(IntAt(headerData, 132)),
        !.m_Energy = Milli(IntAt(headerData, 136)),
        !.m_Intensity = Milli(IntAt(headerData, 140)),
        !.m_ReferenceLine = Milli(IntAt(headerData, 144)),
        !.m_StartPosition = Milli(IntAt(headerData, 148)),
        !.m_EndPosition = Milli(IntAt(headerData, 152))],
   headerSize |-> (IntAt(headerData, 508) + 1) * 512]

\* the mutant of WithinTruncation: a bound of 0.5e-3
WithinHalfMicron(computedSpacing, value) ==
  LET diff == FracAdd(computedSpacing, Frac(-value.n, value.d))
  IN  FracLess(Frac(Abs(diff.n), diff.d), Frac(5, 10000))

\* itk::Math::abs(computedSpacing - value) < 1.1e-3
WithinTruncation(computedSpacing, value) ==
  LET diff == FracAdd(computedSpacing, Frac(-value.n, value.d))
  IN  FracLess(Frac(Abs(diff.n), diff.d), Frac(11, 10000))

\* ISQHeaderIO::ReadISQHeader: the header and m_HeaderSize
ReadISQHeader(h, headerData) ==
  LET sliceThickness == Milli(IntAt(headerData, 68))
      sliceIncrement == Milli(IntAt(headerData, 72))
      startPosition == Milli(IntAt(headerData, 76))
      pixels == Frac(h.m_ScanDimensionsPixels[3], 1)
      computedSpacing == FracDiv(h.m_ScanDimensionsPhysical[3], pixels)
  IN  [headerData |->
         [h EXCEPT
            !.m_SliceThickness =
               IF WithinTruncation(computedSpacing, sliceThickness)
               THEN computedSpacing ELSE sliceThickness,
            !.m_SliceIncrement =
               IF WithinTruncation(computedSpacing, sliceIncrement)
               THEN computedSpacing ELSE sliceIncrement,
            !.m_StartPosition = startPosition,
            !.m_EndPosition =
               FracAdd(startPosition,
                       FracDiv(FracMul(h.m_ScanDimensionsPhysical[3],
                                       Frac(h.m_ScanDimensionsPixels[3] - 1, 1)),
                               pixels)),
            !.m_DataRange = <<Frac(IntAt(headerData, 80), 1), Frac(IntAt(headerData, 84), 1)>>,
            !.m_MuScaling = Frac(IntAt(headerData, 88), 1),
            !.m_NumberOfSamples = IntAt(headerData, 92),
            !.m_NumberOfProjections = IntAt(headerData, 96),
            !.m_ScanDistance = Milli(IntAt(headerData, 100)),
            !.m_ScannerType = IntAt(headerData, 104),
            !.m_SampleTime = Milli(IntAt(headerData, 108)),
            !.m_MeasurementIndex = IntAt(headerData, 112),
            !.m_Site = IntAt(headerData, 116),
            !.m_ReferenceLine = Milli(IntAt(headerData, 120)),
            !.m_ReconstructionAlg = IntAt(headerData, 124),
            !.m_PatientName = StripString(headerData, 128, 40),
            !.m_Energy = Milli(IntAt(headerData, 168)),
            !.m_Intensity = Milli(IntAt(headerData, 172))],
       headerSize |-> (IntAt(headerData, 508) + 1) * 512]

\* a < b for two unsigned long values; a negative number stands for the value
\* the conversion to unsigned long gives it, 2^64 minus its magnitude
ULess(a, b) == IF (a < 0) = (b < 0) THEN a < b ELSE b < 0

RECURSIVE ScanDirectory(_, _, _, _, _, _)
\* the loop of ISQHeaderIO::ReadExtendedHeader over the four directory
\* entries: the calibration record it copies (<<>> for nullptr), its size and
\* the end, counted from buffer, of the last byte read
ScanDirectory(buffer, length, i, bytesRead, hSkip, hBlocks) ==
  IF i = 4 THEN [calHeader |-> <<>>, calHeaderSize |-> 0,
                 reach |-> bytesRead + 3 * 128 + 24]
  ELSE IF strncmpEq(Load(buffer, bytesRead + i * 128 + 8, 16), CalibrationString, 16)
       THEN LET found == IntAt(buffer, bytesRead + i * 128 + 24)
            IN  IF ULess(length, (hSkip + found) * ScancoHeaderBlockSize)
                THEN [calHeader |-> <<>>, calHeaderSize |-> 0,
                      reach |-> bytesRead + i * 128 + 28]
                ELSE [calHeader |-> Load(buffer, hSkip * ScancoHeaderBlockSize,
                                         CalibrationHeaderSize),
                      calHeaderSize |-> found * ScancoHeaderBlockSize,
                      reach |-> hSkip * ScancoHeaderBlockSize + CalibrationHeaderSize]
       ELSE ScanDirectory(buffer, length, i + 1, bytesRead + hBlocks, hSkip + hBlocks,
                          hBlocks)

\* ISQHeaderIO::ReadExtendedHeader(buffer, length): the loop's findings
ScanExtendedHeader(buffer, length) ==
  IF ULess(length, ScancoHeaderBlockSize * 3)
  THEN [calHeader |-> <<>>, calHeaderSize |-> 0, reach |-> 0]
  ELSE LET multi == strncmpEq(Load(buffer, 8, 16), MultiHeaderString, 16)
       IN  ScanDirectory(buffer, length, 0,
                         IF multi THEN ScancoHeaderBlockSize ELSE 0,
                         IF multi THEN 1 ELSE 0, 0)

\* ISQHeaderIO::ReadExtendedHeader(buffer, length)
ReadExtendedHeader(h, buffer, length) ==
  Local(ScanExtendedHeader(buffer, length),
        LAMBDA cal :
          IF cal.calHeader # <<>> /\ cal.calHeaderSize >= 1024
          THEN [h EXCEPT
                  !.m_CalibrationData = StripString(cal.calHeader, 540, 64),
                  !.m_RescaleType = IntAt(cal.calHeader, 1144),
                  !.m_RescaleUnits = StripString(cal.calHeader, 1160, 16),
                  !.m_RescaleSlope = DecodeDouble(Load(cal.calHeader, 1176, 8)),
                  !.m_RescaleIntercept = DecodeDouble(Load(cal.calHeader, 1184, 8)),
                  !.m_MuWater = DecodeDouble(Load(cal.calHeader, 1200, 8))]
          ELSE h)

\* ISQHeaderIO::ReadHeader(infile) on a stream that holds at least the first
\* block, by a reader whose header has no raw header yet: the header it
\* leaves and the value it returns, or the exception.  beyond is what the
\* memory after the raw header holds (after address 512 when none is
\* allocated); allocated is the size of the extended header in the raw header
\* and reach the end of the last byte ReadExtendedHeader reads, both counted
\* from byte 512 of the raw header
ISQReadHeaderInMemory(h, file, beyond) ==
  LET imageInfo == Load(file, 0, 68)
  IN  IF CheckVersion(Load(imageInfo, 0, 16)) # CTHEADER
      THEN [threw |-> TRUE, headerData |-> h, result |-> 0, allocated |-> 0, reach |-> 0]
      ELSE
        LET h1 == [h EXCEPT !.m_Version = Load(imageInfo, 0, 16),
                            !.m_PixelData.m_ComponentType = IntAt(imageInfo, 16),
                            !.m_PatientIndex = IntAt(imageInfo, 28),
                            !.m_ScannerID = IntAt(imageInfo, 32)]
            h2 == ReadDateValues(h1, DecodeDate(Load(imageInfo, 36, 8)))
            block == Load(file, 0, ScancoHeaderBlockSize)
            ReadBody(dim) == IF dim.isRAD THEN ReadRADHeader(dim.headerData, block)
                             ELSE ReadISQHeader(dim.headerData, block)
            ReadRest(body) ==
              IF ULess(ScancoHeaderBlockSize, body.headerSize)
              THEN IF body.headerSize < 0
                   \* new char[m_HeaderSize] of more than 2^63 bytes
                   THEN [threw |-> TRUE, headerData |-> body.headerData, result |-> 0,
                         allocated |-> 0, reach |-> 0]
                   ELSE IF Len(file) < body.headerSize
                   THEN [threw |-> FALSE, headerData |-> body.headerData, result |-> 0,
                         allocated |-> body.headerSize - ScancoHeaderBlockSize,
                         reach |-> 0]
                   ELSE Local(SubSeq(file, ScancoHeaderBlockSize + 1, body.headerSize)
                                \o beyond,
                              LAMBDA buffer :
                                [threw |-> FALSE,
                                 headerData |->
                                   ReadExtendedHeader(body.headerData, buffer,
                                                      body.headerSize - ScancoHeaderBlockSize),
                                 result |-> body.headerSize,
                                 allocated |-> body.headerSize - ScancoHeaderBlockSize,
                                 reach |->
                                   ScanExtendedHeader(buffer,
                                     body.headerSize - ScancoHeaderBlockSize).reach])
              ELSE [threw |-> FALSE,
                    headerData |->
                      ReadExtendedHeader(body.headerData, beyond,
                                         body.headerSize - ScancoHeaderBlockSize),
                    result |-> body.headerSize,
                    allocated |-> 0,
                    reach |-> ScanExtendedHeader(beyond,
                                body.headerSize - ScancoHeaderBlockSize).reach]
        IN  Local(ReadDimensionData(h2, imageInfo),
                  LAMBDA dim : Local(ReadBody(dim), ReadRest))

\* ISQHeaderIO::ReadHeader(infile) where nothing follows the raw header
ISQReadHeader(h, file) == ISQReadHeaderInMemory(h, file, <<>>)

-----------------------------------------------------------------------------
(* The primitive codec, exercised one call at a time: the caller picks a   *)
(* function pair and an argument, encodes into target, decodes target.     *)

RECURSIVE Pow2(_)
Pow2(e) == IF e = 0 THEN 1 ELSE 2 * Pow2(e - 1)

INT_MAX == Pow2(30) - 1 + Pow2(30)
INT_MIN == -INT_MAX - 1

\* 32-bit arguments: every power of two and its neighbours, both signs, the
\* two ends of the range and two values with four different bytes
Int32Inputs ==
  {Pow2(e) + d : e \in 0..30, d \in {-1, 0}}
    \cup {-Pow2(e) + d : e \in 0..30, d \in {-1, 0}}
    \cup {INT_MAX, INT_MIN, 305419896, -19088744}

\* 64-bit arguments, as chunks
Int64Inputs ==
  [a : {0, 1, -1, 255, -256, 32767, -32768, 4660},
   b : {0, 1, TwoTo24 - 1, 5666970},
   c : {0, 255, TwoTo24 - 1, 7903932}]

DateInputs ==
  [day : {1, 15, 28}, mon : {"JAN", "FEB", "MAR", "NOV", "DEC"},
   year : {1859, 1999, 2020, 9999}, hour : {0, 12, 23}, minute : {0, 30, 59},
   second : {0, 45}, millis : {0, 123, 999}]

\* the first 16 bytes of a file
PrefixInputs ==
  {ISQVersionString,
   AIM030String \o <<0>>,
   AIM030String \o <<32>>,
   AIM020String \o <<0>>,
   SubSeq(ISQVersionString, 1, 15) \o <<50>>,
   Zeros(16),
   [k \in 1..16 |-> 255]}
    \cup {EncodeInt(p) \o EncodeInt(i) \o Zeros(8) : p \in {20, 21, 0}, i \in {140, 141, 224}}

RECURSIVE Pow10(_)
Pow10(k) == IF k = 0 THEN 1 ELSE 10 * Pow10(k - 1)

\* the decimal digits of a natural number
RECURSIVE NatDigits(_)
NatDigits(n) == IF n < 10 THEN <<48 + n>> ELSE NatDigits(n \div 10) \o <<48 + (n % 10)>>

\* outLog << int
FormatInt(n) == IF n < 0 THEN <<45>> \o NatDigits(-n) ELSE NatDigits(n)

\* "%02d" and "%03d" of a number that is not negative
ZeroPadded(n, width) ==
  IF n < 10 THEN [k \in 1..(width - 1) |-> 48] \o NatDigits(n)
  ELSE IF n < 100 THEN [k \in 1..(width - 2) |-> 48] \o NatDigits(n)
  ELSE NatDigits(n)

\* the characters of an entry of monthStrings
MonthChars(mon) ==
  CASE mon = "XXX" -> <<88, 88, 88>>
    [] mon = "JAN" -> <<74, 65, 78>>
    [] mon = "FEB" -> <<70, 69, 66>>
    [] mon = "MAR" -> <<77, 65, 82>>
    [] mon = "APR" -> <<65, 80, 82>>
    [] mon = "MAY" -> <<77, 65, 89>>
    [] mon = "JUN" -> <<74, 85, 78>>
    [] mon = "JUL" -> <<74, 85, 76>>
    [] mon = "AUG" -> <<65, 85, 71>>
    [] mon = "SEP" -> <<83, 69, 80>>
    [] mon = "OCT" -> <<79, 67, 84>>
    [] mon = "NOV" -> <<78, 79, 86>>
    [] mon = "DEC" -> <<68, 69, 67>>

\* the text snprintf writes for the arguments DateToString passes:
\* "%d-%s-%d %02d:%02d:%02d.%03d"
DateText(d) ==
  NatDigits(d.day) \o <<45>> \o MonthChars(d.mon) \o <<45>> \o NatDigits(d.year)
    \o <<32>> \o ZeroPadded(d.hour, 2) \o <<58>> \o ZeroPadded(d.minute, 2)
    \o <<58>> \o ZeroPadded(d.second, 2) \o <<46>> \o ZeroPadded(d.millis, 3)

\* GetCurrentDateString(target), timeinfo being what localtime returns
GetCurrentDateString(timeinfo) ==
  DateText(DateToString(timeinfo.tm_year + 1900, timeinfo.tm_mon, timeinfo.tm_mday,
                        timeinfo.tm_hour, timeinfo.tm_min, timeinfo.tm_sec, 0))

\* local times: every month of 2026, a one-digit and a two-digit day
ClockInputs ==
  [tm_year : {126}, tm_mon : 0..11, tm_mday : {3, 14}, tm_hour : {6, 23},
   tm_min : {4}, tm_sec : {5, 59}]

\* finite floats as bit patterns: zero, subnormals, the lowest and the highest
\* binades, both signs
FloatInputs ==
  { Local((TwoTo24 \div 2) * e + fraction, LAMBDA bits :
      <<ByteOfInt(bits, 0), ByteOfInt(bits, 1), ByteOfInt(bits, 2),
        ByteOfInt(bits, 3) + 128 * sign>>) :
    e \in {0, 1, 2, 3, 127, 252, 253, 254},
    fraction \in {0, 1, 2, 3, TwoTo24 \div 4, (TwoTo24 \div 2) - 1},
    sign \in {0, 1} }

\* finite doubles as bit patterns, chosen the same way
DoubleInputs ==
  { <<low, middle, middle, middle, middle, middle,
      16 * (e % 16) + high, (e \div 16) + 128 * sign>> :
    e \in {0, 1, 2, 3, 1023, 2044, 2045, 2046},
    low \in {0, 1, 2, 3}, middle \in {0, 255}, high \in {0, 8, 15},
    sign \in {0, 1} }

InitCodec ==
  /\ session = "codec"
  /\ step = "start"
  /\ \/ fn = "date" /\ input \in DateInputs \cup {BadDateString}
     \/ fn = "int" /\ input \in Int32Inputs
     \/ fn = "int64" /\ input \in Int64Inputs
     \/ fn = "float" /\ input \in FloatInputs
     \/ fn = "double" /\ input \in DoubleInputs
     \/ fn = "GetCurrentDateString" /\ input \in ClockInputs
     \/ fn \in {"CheckVersion", "ScancoImageIO::CheckVersion"} /\ input \in PrefixInputs
  /\ target = <<>>
  /\ output = None

\* EncodeDateFromString(target, dateString); sscanf must convert 7 items
CallEncodeDateFromString ==
  /\ session = "codec" /\ fn = "date" /\ step = "start"
  /\ IF input = BadDateString
     THEN /\ step' = "threw"
          /\ target' = target
     ELSE /\ step' = "encoded"
          /\ target' = EncodeDateFromString(input)
  /\ UNCHANGED <<session, fn, input, output>>

\* DecodeDate(target, ...) and DateToString of what it returns
CallDecodeDate ==
  /\ session = "codec" /\ fn = "date" /\ step = "encoded"
  /\ LET d == DecodeDate(target)
     IN  output' = DateToString(d.year, d.month, d.day, d.hour, d.minute,
                                d.second, d.millis)
  /\ step' = "decoded"
  /\ UNCHANGED <<session, fn, input, target>>

CallEncodeInt ==
  /\ session = "codec" /\ fn = "int" /\ step = "start"
  /\ target' = EncodeInt(input)
  /\ step' = "encoded"
  /\ UNCHANGED <<session, fn, input, output>>

CallDecodeInt ==
  /\ session = "codec" /\ fn = "int" /\ step = "encoded"
  /\ output' = DecodeInt(target)
  /\ step' = "decoded"
  /\ UNCHANGED <<session, fn, input, target>>

CallEncodeInt64 ==
  /\ session = "codec" /\ fn = "int64" /\ step = "start"
  /\ target' = EncodeInt64(input)
  /\ step' = "encoded"
  /\ UNCHANGED <<session, fn, input, output>>

CallDecodeInt64 ==
  /\ session = "codec" /\ fn = "int64" /\ step = "encoded"
  /\ output' = DecodeInt64(target)
  /\ step' = "decoded"
  /\ UNCHANGED <<session, fn, input, target>>

CallEncodeFloat ==
  /\ session = "codec" /\ fn = "float" /\ step = "start"
  /\ target' = EncodeFloat(input)
  /\ step' = "encoded"
  /\ UNCHANGED <<session, fn, input, output>>

CallDecodeFloat ==
  /\ session = "codec" /\ fn = "float" /\ step = "encoded"
  /\ output' = DecodeFloat(target)
  /\ step' = "decoded"
  /\ UNCHANGED <<session, fn, input, target>>

CallEncodeDouble ==
  /\ session = "codec" /\ fn = "double" /\ step = "start"
  /\ target' = EncodeDouble(input)
  /\ step' = "encoded"
  /\ UNCHANGED <<session, fn, input, output>>

CallDecodeDouble ==
  /\ session = "codec" /\ fn = "double" /\ step = "encoded"
  /\ output' = DecodeDouble(target)
  /\ step' = "decoded"
  /\ UNCHANGED <<session, fn, input, target>>

CallGetCurrentDateString ==
  /\ session = "codec" /\ fn = "GetCurrentDateString" /\ step = "start"
  /\ output' = GetCurrentDateString(input)
  /\ step' = "date written"
  /\ UNCHANGED <<session, fn, input, target>>

CallCheckVersion ==
  /\ session = "codec" /\ fn = "CheckVersion" /\ step = "start"
  /\ output' = CheckVersion(input)
  /\ step' = "returned"
  /\ UNCHANGED <<session, fn, input, target>>

CallImageIOCheckVersion ==
  /\ session = "codec" /\ fn = "ScancoImageIO::CheckVersion" /\ step = "start"
  /\ output' = ImageIOCheckVersion(input)
  /\ step' = "returned"
  /\ UNCHANGED <<session, fn, input, target>>

NextCodec ==
  \/ CallEncodeDateFromString
  \/ CallDecodeDate
  \/ CallEncodeInt
  \/ CallDecodeInt
  \/ CallEncodeInt64
  \/ CallDecodeInt64
  \/ CallEncodeFloat
  \/ CallDecodeFloat
  \/ CallEncodeDouble
  \/ CallDecodeDouble
  \/ CallGetCurrentDateString
  \/ CallCheckVersion
  \/ CallImageIOCheckVersion

SpecCodec == InitCodec /\ [][NextCodec]_vars

-----------------------------------------------------------------------------
(* One write of an ISQ header followed by one read of the written stream   *)
(* into a fresh header.                                                    *)

\* a value-initialised itkScancoHeaderData
FreshHeader ==
  [m_Version |-> <<>>, m_PatientName |-> <<>>, m_PatientIndex |-> 0, m_ScannerID |-> 0,
   m_CreationDate |-> <<>>, m_ModificationDate |-> <<>>,
   m_ScanDimensionsPixels |-> <<0, 0, 0>>,
   m_ScanDimensionsPhysical |-> <<Frac(0, 1), Frac(0, 1), Frac(0, 1)>>,
   m_SliceThickness |-> Frac(0, 1), m_SliceIncrement |-> Frac(0, 1),
   m_StartPosition |-> Frac(0, 1), m_EndPosition |-> Frac(0, 1),
   m_ZPosition |-> Frac(0, 1), m_DataRange |-> <<Frac(0, 1), Frac(0, 1)>>,
   m_MuScaling |-> Frac(0, 1), m_NumberOfSamples |-> 0, m_NumberOfProjections |-> 0,
   m_ScanDistance |-> Frac(0, 1), m_SampleTime |-> Frac(0, 1), m_ScannerType |-> 0,
   m_MeasurementIndex |-> 0, m_Site |-> 0, m_ReconstructionAlg |-> 0,
   m_ReferenceLine |-> Frac(0, 1), m_Energy |-> Frac(0, 1), m_Intensity |-> Frac(0, 1),
   m_RescaleType |-> 0, m_RescaleUnits |-> <<>>, m_CalibrationData |-> <<>>,
   m_RescaleSlope |-> Zeros(8), m_RescaleIntercept |-> Zeros(8), m_MuWater |-> Zeros(8),
   m_PixelData |-> [m_Dimensions |-> <<0, 0, 0>>,
                    m_Spacing |-> <<Frac(0, 1), Frac(0, 1), Frac(0, 1)>>,
                    m_Origin |-> <<0, 0, 0>>, m_ComponentType |-> 0]]

\* the header of the test volume C0004255.ISQ (itkScancoImageIOTest2.cxx)
TestHeader ==
  [FreshHeader EXCEPT
     !.m_Version = ISQVersionString,
     !.m_PatientName = <<90, 117, 107, 105, 99>>,
     !.m_PatientIndex = 78, !.m_ScannerID = 2135,
     !.m_CreationDate = [day |-> 15, mon |-> "JAN", year |-> 2020, hour |-> 12,
                         minute |-> 30, second |-> 45, millis |-> 123],
     !.m_ModificationDate = [day |-> 15, mon |-> "JAN", year |-> 2020, hour |-> 12,
                             minute |-> 30, second |-> 45, millis |-> 123],
     !.m_ScanDimensionsPixels = <<1024, 1024, 51>>,
     !.m_ScanDimensionsPhysical = <<Milli(36864), Milli(36864), Milli(1836)>>,
     !.m_SliceThickness = Milli(36), !.m_SliceIncrement = Milli(36),
     !.m_StartPosition = Milli(75000), !.m_EndPosition = Milli(76800),
     !.m_DataRange = <<Frac(-2813, 1), Frac(32767, 1)>>,
     !.m_MuScaling = Frac(4096, 1),
     !.m_NumberOfSamples = 1024, !.m_NumberOfProjections = 500,
     !.m_ScanDistance = Milli(36864), !.m_SampleTime = Milli(400000),
     !.m_ScannerType = 10, !.m_MeasurementIndex = 4937, !.m_Site = 5,
     !.m_ReconstructionAlg = 3, !.m_Energy = Milli(45000), !.m_Intensity = Milli(177),
     !.m_RescaleType = 2,
     \* "mg HA/ccm"
     !.m_RescaleUnits = <<109, 103, 32, 72, 65, 47, 99, 99, 109>>,
     \* "45 kVp, 0.5mm Al, BH: 1200mg HA/ccm, Scaling 4096"
     !.m_CalibrationData = <<52, 53, 32, 107, 86, 112, 44, 32, 48, 46, 53, 109, 109, 32, 65, 108, 44, 32, 66, 72, 58, 32, 49, 50, 48, 48, 109, 103, 32, 72, 65, 47, 99, 99, 109, 44, 32, 83, 99, 97, 108, 105, 110, 103, 32, 52, 48, 57, 54>>,
     \* 0.347136, -1000.0, 0.7033
     !.m_RescaleSlope = <<146, 233, 208, 233, 121, 55, 214, 63>>,
     !.m_RescaleIntercept = <<0, 0, 0, 0, 0, 64, 143, 192>>,
     !.m_MuWater = <<140, 219, 104, 0, 111, 129, 230, 63>>,
     !.m_PixelData = [m_Dimensions |-> <<1024, 1024, 51>>,
                      m_Spacing |-> <<Milli(36), Milli(36), Milli(36)>>,
                      m_Origin |-> <<0, 0, 0>>, m_ComponentType |-> 3]]

\* the same scan, 3 x 4 x 2 voxels of 0.25 mm and no calibration
SmallHeader ==
  [TestHeader EXCEPT
     !.m_ScanDimensionsPixels = <<3, 4, 2>>,
     !.m_ScanDimensionsPhysical = <<Milli(750), Milli(1000), Milli(500)>>,
     !.m_SliceThickness = Milli(250), !.m_SliceIncrement = Milli(250),
     !.m_EndPosition = Milli(75250),
     !.m_RescaleType = 0, !.m_RescaleUnits = <<>>, !.m_CalibrationData = <<>>,
     \* 1.0, 0.0, 0.0
     !.m_RescaleSlope = <<0, 0, 0, 0, 0, 0, 240, 63>>,
     !.m_RescaleIntercept = Zeros(8), !.m_MuWater = Zeros(8),
     !.m_PixelData = [m_Dimensions |-> <<3, 4, 2>>,
                      m_Spacing |-> <<Milli(250), Milli(250), Milli(250)>>,
                      m_Origin |-> <<0, 0, 0>>, m_ComponentType |-> 3]]

\* headers handed to the ISQ writer
ISQHeaders ==
  {[h EXCEPT !.m_Version = version, !.m_MuScaling = muScaling,
             !.m_CreationDate = date, !.m_PatientName = name] :
     h \in {TestHeader, SmallHeader},
     version \in {ISQVersionString, AIM020String, AIM030String},
     muScaling \in {Frac(1, 1), Frac(4096, 1), Frac(1, 2)},
     date \in {TestHeader.m_CreationDate,
               [day |-> 18, mon |-> "NOV", year |-> 1858, hour |-> 0, minute |-> 0,
                second |-> 0, millis |-> 0],
               BadDateString},
     name \in {<<>>, TestHeader.m_PatientName, [k \in 1..40 |-> 65]}}
    \cup
  \* volumes of one, no and a negative number of slices, a slice spacing that
  \* is not a whole number of micrometres, and slice thickness and increment
  \* that differ from the spacing; the volume of no slices, which is read back
  \* as a RAD stream, has a patient name of 40 different characters
  {[SmallHeader EXCEPT !.m_PixelData.m_Dimensions = dimensions,
                       !.m_PatientName = IF dimensions[3] = 0 THEN [k \in 1..40 |-> 64 + k]
                                         ELSE SmallHeader.m_PatientName,
                       !.m_PixelData.m_Spacing[3] = spacing,
                       !.m_SliceThickness = thickness,
                       !.m_SliceIncrement = increment] :
     dimensions \in {<<3, 4, 3>>, <<3, 4, 1>>, <<3, 4, 0>>, <<0, 4, 2>>, <<3, 4, -2>>},
     spacing \in {Milli(250), Frac(1, 3)},
     thickness \in {Milli(250), Frac(1, 3), Milli(332), Milli(334)},
     increment \in {Milli(250), Frac(1, 3)}}

\* product of the dimensions times the component size, or nothing to write
ImageSizes == {0, 2 * 3 * 4 * 2, 2 * 1024 * 1024 * 51}

InitISQ ==
  /\ session = "isq"
  /\ step = "start"
  /\ fn = "ISQHeaderIO"
  /\ input \in [headerData : ISQHeaders, imageSize : ImageSizes]
  /\ target = <<>>
  /\ output = None

\* ISQHeaderIO::WriteHeader(outfile, imageSize)
CallISQWriteHeader ==
  /\ session = "isq" /\ step = "start"
  /\ LET w == ISQWriteHeader(input.headerData, input.imageSize)
     IN  /\ step' = IF w.threw THEN "threw" ELSE "written"
         /\ target' = w.file
         /\ output' = [bytesWritten |-> w.bytesWritten]
  /\ UNCHANGED <<session, fn, input>>

\* ISQHeaderIO::ReadHeader(infile) on the written stream, by a reader that
\* holds a fresh header
CallISQReadHeader ==
  /\ session = "isq" /\ step = "written"
  /\ LET r == ISQReadHeader(FreshHeader, target)
     IN  /\ step' = IF r.threw THEN "rejected" ELSE "read"
         /\ output' = [bytesWritten |-> output.bytesWritten,
                       headerData |-> r.headerData, result |-> r.result]
  /\ UNCHANGED <<session, fn, input, target>>

NextISQ ==
  \/ CallISQWriteHeader
  \/ CallISQReadHeader

SpecISQ == InitISQ /\ [][NextISQ]_vars

-----------------------------------------------------------------------------
(* ISQ streams that no writer of this library produced: an extended header *)
(* whose directory names the calibration record in any of its four entries, *)
(* with or without a MultiHeader block, and a data offset that need not     *)
(* agree with what follows the first block.                                 *)

\* "Other           ", a section name the reader does not know
OtherString == <<79, 116, 104, 101, 114, 32, 32, 32, 32, 32, 32, 32, 32, 32, 32, 32>>

\* "decoy"
DecoyString == <<100, 101, 99, 111, 121>>

\* one 128-byte directory entry: the name at 8, the block count at 24
DirectoryEntry(name, blocks) ==
  StoreAll(Zeros(128), << <<8, name>>, <<24, EncodeInt(blocks)>> >>)

\* a block of a section that is not the calibration record; bytes 28.. would
\* be the calibration data if the block were taken for the record's first
OtherBlock == Store(Zeros(ScancoHeaderBlockSize), 28, DecoyString \o Spaces(59))

\* the two blocks of the calibration record of the test volume, as
\* WriteExtendedHeader lays them out after the directory block
CalibrationBlocks ==
  SubSeq(ISQExtendedHeader(TestHeader), 2 * ScancoHeaderBlockSize + 1,
         4 * ScancoHeaderBlockSize)

RECURSIVE Repeat(_, _)
Repeat(block, n) == IF n <= 0 THEN <<>> ELSE block \o Repeat(block, n - 1)

\* the extended header a description c stands for: the MultiHeader block if
\* c.multi, the directory block with the calibration entry at index c.calIndex
\* (none for 4) after entries of c.before blocks each, then the blocks of the
\* sections in directory order
CraftedExtendedHeader(c) ==
  (IF c.multi THEN Store(Zeros(ScancoHeaderBlockSize), 8, MultiHeaderString) ELSE <<>>)
    \o Repeat(DirectoryEntry(OtherString, c.before), c.calIndex)
    \o (IF c.calIndex < 4 THEN DirectoryEntry(CalibrationString, c.calBlocks) ELSE <<>>)
    \o Zeros(128 * (3 - c.calIndex))
    \o Repeat(OtherBlock, c.before * c.calIndex)
    \o (IF c.calIndex < 4 THEN CalibrationBlocks ELSE <<>>)

\* the stream: the first block of the small volume with the data offset of the
\* description, or the number of blocks of the extended header, and the
\* extended header
CraftedFile(c) ==
  Local(CraftedExtendedHeader(c), LAMBDA extended :
    Store(ISQEncodedHeaderBlock(SmallHeader, 48), 508,
          EncodeInt(IF c.counted THEN Len(extended) \div ScancoHeaderBlockSize
                    ELSE c.dataOffset))
      \o extended)

CraftedFiles ==
  {c \in [multi : BOOLEAN, calIndex : 0..4, before : {0, 1}, calBlocks : {1, 2},
          \* the data offset is counted from the extended header, or is given
          counted : BOOLEAN, dataOffset : {-2, -1, 0, 3, 7},
          \* the byte that fills the memory after the raw header
          beyond : {0, 255}] :
     c.counted => c.dataOffset = 0}

InitISQFile ==
  /\ session = "isqfile"
  /\ step = "start"
  /\ fn = "ISQHeaderIO"
  /\ input \in CraftedFiles
  /\ target = <<>>
  /\ output = None

\* ISQHeaderIO::ReadHeader(infile) on the stream of the description, by a
\* reader that holds a fresh header
CallISQReadHeaderOfFile ==
  /\ session = "isqfile" /\ step = "start"
  /\ \E file \in {CraftedFile(input)} :
       /\ target' = file
       /\ \E r \in {ISQReadHeaderInMemory(FreshHeader, file,
                      [k \in 1..(4 * ScancoHeaderBlockSize) |-> input.beyond])} :
            /\ step' = IF r.threw THEN "threw" ELSE "read"
            /\ output' = r
  /\ UNCHANGED <<session, fn, input>>

NextISQFile == CallISQReadHeaderOfFile

SpecISQFile == InitISQFile /\ [][NextISQFile]_vars


-----------------------------------------------------------------------------
(* The image IO (itkScancoImageIO.cxx).  A file is the 16 bytes the version *)
(* check looks at, the number of bytes the first read delivered, and the    *)
(* values its header holds for the rescale fields: mu_scaling (offset 88 of *)
(* an ISQ block, the key "Mu_Scaling" of an AIM log) and the calibration    *)
(* record (ISQ extended header, the keys "Density: ..." and "HU: mu water").*)
(* The header is the rescale fields of the object.                          *)

\* ".mha", ".mhd"
MhaExtension == <<46, 109, 104, 97>>

MhdExtension == <<46, 109, 104, 100>>

\* filename.rfind(str): the last position (from 0) where str occurs, -1 for npos
rfind(filename, str) ==
  LET found == {pos \in 0..(Len(filename) - Len(str)) :
                  SubSeq(filename, pos + 1, pos + Len(str)) = str}
  IN  IF found = {} THEN -1 ELSE CHOOSE pos \in found : \A q \in found : q <= pos

\* ScancoImageIO::CanWriteFile(name)
ImageIOCanWriteFile(name) ==
  IF name = <<>> THEN FALSE
  ELSE IF rfind(name, MhaExtension) # -1 /\ rfind(name, MhaExtension) = Len(name) - 4
       THEN TRUE
  ELSE IF rfind(name, MhdExtension) # -1 /\ rfind(name, MhdExtension) = Len(name) - 4
       THEN TRUE
  ELSE FALSE

\* ScancoImageIO::InitializeHeader
ImageIOInitializeHeader ==
  [Version |-> <<>>, MuScaling |-> Frac(1, 1), RescaleSlope |-> Frac(1, 1),
   RescaleIntercept |-> Frac(0, 1), MuWater |-> Frac(0, 1)]

\* "Include conversion to linear att coeff in the rescaling"
ImageIODivideSlope(h) ==
  IF h.MuScaling # Frac(0, 1)
  THEN [h EXCEPT !.RescaleSlope = FracDiv(h.RescaleSlope, h.MuScaling)]
  ELSE h

\* the calibration fields, when the file has them
ImageIOReadCalibration(h, file) ==
  IF file.hasCalibration
  THEN [h EXCEPT !.RescaleSlope = file.RescaleSlope,
                 !.RescaleIntercept = file.RescaleIntercept,
                 !.MuWater = file.MuWater]
  ELSE h

\* ScancoImageIO::ReadISQHeader(file, bytesRead)
ImageIOReadISQHeader(h, file) ==
  IF file.bytesRead < 512 THEN h
  ELSE ImageIODivideSlope(
         ImageIOReadCalibration(
           [h EXCEPT !.Version = StripString(file.header, 0, 16),
                     !.MuScaling = Frac(file.MuScaling, 1)], file))

\* ScancoImageIO::ReadAIMHeader(file, bytesRead)
ImageIOReadAIMHeader(h, file) ==
  IF file.bytesRead < 160 THEN h
  ELSE ImageIODivideSlope(
         ImageIOReadCalibration(
           [h EXCEPT !.Version = IF strcmpEq(file.header, AIM030String)
                                  THEN AIM030String ELSE AIM020String,
                     !.MuScaling = IF file.hasMuScaling THEN Frac(file.MuScaling, 1)
                                    ELSE h.MuScaling], file))

\* ScancoImageIO::ReadImageInformation, the block that rescales to Hounsfield
\* units being commented out
ImageIOReadImageInformation(file) ==
  LET fileType == ImageIOCheckVersion(file.header)
  IN  IF fileType = 0 THEN [threw |-> TRUE, header |-> ImageIOInitializeHeader]
      ELSE [threw |-> FALSE,
            header |-> IF fileType = 1
                       THEN ImageIOReadISQHeader(ImageIOInitializeHeader, file)
                       ELSE ImageIOReadAIMHeader(ImageIOInitializeHeader, file)]

\* "", "out.isq", "out.ISQ", "out.aim", "out.AIM", "out.rsq", "out.rad", "out.isq.exe", "out.aim.exe", "out.mha", "out.mhd", "out.mha.isq", "isq", "mha", ".mha"
PathInputs ==
  {<<>>,
   <<111, 117, 116, 46, 105, 115, 113>>,
   <<111, 117, 116, 46, 73, 83, 81>>,
   <<111, 117, 116, 46, 97, 105, 109>>,
   <<111, 117, 116, 46, 65, 73, 77>>,
   <<111, 117, 116, 46, 114, 115, 113>>,
   <<111, 117, 116, 46, 114, 97, 100>>,
   <<111, 117, 116, 46, 105, 115, 113, 46, 101, 120, 101>>,
   <<111, 117, 116, 46, 97, 105, 109, 46, 101, 120, 101>>,
   <<111, 117, 116, 46, 109, 104, 97>>,
   <<111, 117, 116, 46, 109, 104, 100>>,
   <<111, 117, 116, 46, 109, 104, 97, 46, 105, 115, 113>>,
   <<105, 115, 113>>,
   <<109, 104, 97>>,
   <<46, 109, 104, 97>>}

\* files: an ISQ, both AIM versions, an unknown format; a short first read;
\* with and without calibration (density units, and slope 1000 / mu_water
\* with intercept -1000)
FileInputs ==
  {f \in
     {[header |-> header, bytesRead |-> bytesRead, hasMuScaling |-> hasMu,
       MuScaling |-> mu, hasCalibration |-> cal[1], RescaleSlope |-> cal[2],
       RescaleIntercept |-> cal[3], MuWater |-> cal[4]] :
        header \in {ISQVersionString, AIM030String \o <<0>>,
                    EncodeInt(20) \o EncodeInt(140) \o Zeros(8), Zeros(16)},
        bytesRead \in {100, 512},
        hasMu \in BOOLEAN,
        mu \in {-2, 0, 1, 2, 4096},
        cal \in {<<FALSE, Frac(0, 1), Frac(0, 1), Frac(0, 1)>>,
                 <<TRUE, Frac(8, 1), Frac(-391, 1), Frac(1, 4)>>,
                 <<TRUE, Frac(4000, 1), Frac(-1000, 1), Frac(1, 4)>>}} :
     /\ f.header = ISQVersionString => f.hasMuScaling
     /\ ~f.hasMuScaling => f.MuScaling = 1}

InitIO ==
  /\ session = "io"
  /\ step = "start"
  /\ \/ fn = "CanWriteFile" /\ input \in PathInputs
     \/ fn = "ReadImageInformation" /\ input \in FileInputs
  /\ target = <<>>
  /\ output = None

CallCanWriteFile ==
  /\ session = "io" /\ fn = "CanWriteFile" /\ step = "start"
  /\ output' = ImageIOCanWriteFile(input)
  /\ step' = "returned"
  /\ UNCHANGED <<session, fn, input, target>>

CallReadImageInformation ==
  /\ session = "io" /\ fn = "ReadImageInformation" /\ step = "start"
  /\ LET r == ImageIOReadImageInformation(input)
     IN  /\ step' = IF r.threw THEN "threw" ELSE "read"
         /\ output' = r.header
  /\ UNCHANGED <<session, fn, input, target>>

\* ReadImageInformation once more, on the object the first read left, for a
\* second file that carries no calibration; target keeps the header as it was
\* before the call
CallReadImageInformationAgain ==
  /\ session = "io" /\ fn = "ReadImageInformation" /\ step = "read"
  /\ \E file \in {f \in FileInputs : /\ ~f.hasCalibration
                                     /\ f.bytesRead = 512
                                     /\ f.MuScaling \in {1, 4096}} :
       \E r \in {ImageIOReadImageInformation(file)} :
          /\ step' = IF r.threw THEN "threw again" ELSE "read again"
          /\ input' = file
          /\ target' = output
          /\ output' = r.header
  /\ UNCHANGED <<session, fn>>

NextIO ==
  \/ CallCanWriteFile
  \/ CallReadImageInformation
  \/ CallReadImageInformationAgain

SpecIO == InitIO /\ [][NextIO]_vars

-----------------------------------------------------------------------------
(* The AIM processing log (itkAIMHeaderIO.cxx): text, one "key  value" line *)
(* per field.  Characters are their codes.  A double of the header is an    *)
(* exact fraction; the conversions below cover the doubles whose decimal    *)
(* expansion ends within 15 significant digits and that operator<< prints   *)
(* in fixed notation (1e-5 <= |x| < 1e15, or 0), where multiplying by 1e3   *)
(* and 1e-3 is taken as exact.                                               *)

NewLine == 10

IsDigit(c) == c >= 48 /\ c <= 57

\* isspace
IsSpace(c) == c \in {9, 10, 11, 12, 13, 32}

\* the digits after the decimal point of r / d, r < d, by long division
RECURSIVE FractionDigits(_, _)
FractionDigits(r, d) ==
  IF r = 0 THEN <<>>
  ELSE <<48 + ((r * 10) \div d)>> \o FractionDigits((r * 10) % d, d)

\* outLog << std::setprecision(15) << double
FormatDouble(x) ==
  (IF x.n < 0 THEN <<45>> ELSE <<>>)
    \o NatDigits(Abs(x.n) \div x.d)
    \o (IF Abs(x.n) % x.d = 0 THEN <<>>
        ELSE <<46>> \o FractionDigits(Abs(x.n) % x.d, x.d))

\* the number of characters of str from position from on (counted from 1)
\* that satisfy the test
RunLength(str, from, Test(_)) ==
  LET stops == {i \in from..Len(str) : ~Test(str[i])}
  IN  IF stops = {} THEN Len(str) - from + 1
      ELSE (CHOOSE i \in stops : \A j \in stops : i <= j) - from

\* the value of count decimal digits of str from position from on
RECURSIVE DigitsValue(_, _, _)
DigitsValue(str, from, count) ==
  IF count = 0 THEN 0
  ELSE DigitsValue(str, from, count - 1) * 10 + (str[from + count - 1] - 48)

\* where the digits start once white space and a sign are skipped, and the sign
NumberStart(str) ==
  LET ws == RunLength(str, 1, IsSpace)
      signed == ws < Len(str) /\ str[ws + 1] \in {43, 45}
  IN  [from |-> IF signed THEN ws + 2 ELSE ws + 1,
       sign |-> IF signed /\ str[ws + 1] = 45 THEN -1 ELSE 1]

\* std::stol(str, &processed); without digits it throws invalid_argument
stol(str) ==
  Local(NumberStart(str), LAMBDA start :
    Local(RunLength(str, start.from, IsDigit), LAMBDA count :
      IF count = 0 THEN [value |-> "invalid_argument", processed |-> 0]
      ELSE [value |-> start.sign * DigitsValue(str, start.from, count),
            processed |-> start.from - 1 + count]))

\* the conversion of stod once the integer digits are counted: count digits
\* from position from on, then an optional point and fraction digits
DigitsAndFraction(str, sign, from, count) ==
  Local(IF from + count <= Len(str) /\ str[from + count] = 46
        THEN RunLength(str, from + count + 1, IsDigit) ELSE -1, LAMBDA places :
    IF count = 0 /\ places <= 0 THEN [value |-> "invalid_argument", processed |-> 0]
    ELSE IF places = -1
         THEN [value |-> Frac(sign * DigitsValue(str, from, count), 1),
               processed |-> from + count - 1]
    ELSE [value |-> Frac(sign * (DigitsValue(str, from, count) * Pow10(places)
                                   + DigitsValue(str, from + count + 1, places)),
                         Pow10(places)),
          processed |-> from + count + places])

\* std::stod(str, &processed) of digits with an optional fraction
stod(str) ==
  Local(NumberStart(str), LAMBDA start :
    Local(RunLength(str, start.from, IsDigit), LAMBDA count :
      DigitsAndFraction(str, start.sign, start.from, count)))

\* str.find("  "): the first position (from 0) of two spaces, -1 for npos
FindTwoSpaces(str) ==
  LET found == {i \in 1..(Len(str) - 1) : str[i] = Space /\ str[i + 1] = Space}
  IN  IF found = {} THEN -1 ELSE (CHOOSE i \in found : \A j \in found : i <= j) - 1

\* value.substr(first not of ' ', last not of ' ' - first not of ' ' + 1)
TrimSpaces(value) ==
  LET kept == {i \in 1..Len(value) : value[i] # Space}
  IN  SubSeq(value, CHOOSE i \in kept : \A j \in kept : i <= j,
                    CHOOSE i \in kept : \A j \in kept : j <= i)

\* the keys of the log and its fixed text
LogKey ==
  [\* "Time"
   Time |-> <<84, 105, 109, 101>>,
   \* "Original Creation-Date"
   CreationDate |-> <<79, 114, 105, 103, 105, 110, 97, 108, 32, 67, 114, 101, 97, 116, 105, 111, 110, 45, 68, 97, 116, 101>>,
   \* "Orig-ISQ-Dim-p"
   DimP |-> <<79, 114, 105, 103, 45, 73, 83, 81, 45, 68, 105, 109, 45, 112>>,
   \* "Orig-ISQ-Dim-um"
   DimUm |-> <<79, 114, 105, 103, 45, 73, 83, 81, 45, 68, 105, 109, 45, 117, 109>>,
   \* "Patient Name"
   PatientName |-> <<80, 97, 116, 105, 101, 110, 116, 32, 78, 97, 109, 101>>,
   \* "Index Patient"
   PatientIndex |-> <<73, 110, 100, 101, 120, 32, 80, 97, 116, 105, 101, 110, 116>>,
   \* "Index Measurement"
   MeasurementIndex |-> <<73, 110, 100, 101, 120, 32, 77, 101, 97, 115, 117, 114, 101, 109, 101, 110, 116>>,
   \* "Site"
   Site |-> <<83, 105, 116, 101>>,
   \* "Scanner ID"
   ScannerID |-> <<83, 99, 97, 110, 110, 101, 114, 32, 73, 68>>,
   \* "Scanner type"
   ScannerType |-> <<83, 99, 97, 110, 110, 101, 114, 32, 116, 121, 112, 101>>,
   \* "Position Slice 1 [um]"
   StartPosition |-> <<80, 111, 115, 105, 116, 105, 111, 110, 32, 83, 108, 105, 99, 101, 32, 49, 32, 91, 117, 109, 93>>,
   \* "No. samples"
   NumberOfSamples |-> <<78, 111, 46, 32, 115, 97, 109, 112, 108, 101, 115>>,
   \* "No. projections per 180"
   NumberOfProjections |-> <<78, 111, 46, 32, 112, 114, 111, 106, 101, 99, 116, 105, 111, 110, 115, 32, 112, 101, 114, 32, 49, 56, 48>>,
   \* "Scan Distance [um]"
   ScanDistance |-> <<83, 99, 97, 110, 32, 68, 105, 115, 116, 97, 110, 99, 101, 32, 91, 117, 109, 93>>,
   \* "Integration time [us]"
   SampleTime |-> <<73, 110, 116, 101, 103, 114, 97, 116, 105, 111, 110, 32, 116, 105, 109, 101, 32, 91, 117, 115, 93>>,
   \* "Reference line [um]"
   ReferenceLine |-> <<82, 101, 102, 101, 114, 101, 110, 99, 101, 32, 108, 105, 110, 101, 32, 91, 117, 109, 93>>,
   \* "Reconstruction-Alg."
   ReconstructionAlg |-> <<82, 101, 99, 111, 110, 115, 116, 114, 117, 99, 116, 105, 111, 110, 45, 65, 108, 103, 46>>,
   \* "Energy [V]"
   Energy |-> <<69, 110, 101, 114, 103, 121, 32, 91, 86, 93>>,
   \* "Intensity [uA]"
   Intensity |-> <<73, 110, 116, 101, 110, 115, 105, 116, 121, 32, 91, 117, 65, 93>>,
   \* "Mu_Scaling"
   MuScaling |-> <<77, 117, 95, 83, 99, 97, 108, 105, 110, 103>>,
   \* "Calibration Data"
   CalibrationData |-> <<67, 97, 108, 105, 98, 114, 97, 116, 105, 111, 110, 32, 68, 97, 116, 97>>,
   \* "Calib. default unit type"
   RescaleType |-> <<67, 97, 108, 105, 98, 46, 32, 100, 101, 102, 97, 117, 108, 116, 32, 117, 110, 105, 116, 32, 116, 121, 112, 101>>,
   \* "Density: unit"
   RescaleUnits |-> <<68, 101, 110, 115, 105, 116, 121, 58, 32, 117, 110, 105, 116>>,
   \* "Density: slope"
   RescaleSlope |-> <<68, 101, 110, 115, 105, 116, 121, 58, 32, 115, 108, 111, 112, 101>>,
   \* "Density: intercept"
   RescaleIntercept |-> <<68, 101, 110, 115, 105, 116, 121, 58, 32, 105, 110, 116, 101, 114, 99, 101, 112, 116>>,
   \* "HU: mu water"
   MuWater |-> <<72, 85, 58, 32, 109, 117, 32, 119, 97, 116, 101, 114>>,
   \* "Minimum data value"
   DataRangeMin |-> <<77, 105, 110, 105, 109, 117, 109, 32, 100, 97, 116, 97, 32, 118, 97, 108, 117, 101>>,
   \* "Maximum data value"
   DataRangeMax |-> <<77, 97, 120, 105, 109, 117, 109, 32, 100, 97, 116, 97, 32, 118, 97, 108, 117, 101>>,
   \* "Created by"
   CreatedBy |-> <<67, 114, 101, 97, 116, 101, 100, 32, 98, 121>>,
   \* "ITKIOScanco"
   Creator |-> <<73, 84, 75, 73, 79, 83, 99, 97, 110, 99, 111>>,
   \* "! Processing Log"
   Title |-> <<33, 32, 80, 114, 111, 99, 101, 115, 115, 105, 110, 103, 32, 76, 111, 103>>]

\* "!" and 79 dashes
LogRule == <<33>> \o [k \in 1..79 |-> 45] \o <<NewLine>>

\* one line of the log: key, padding, value, trailing spaces, std::endl
LogLine(key, pad, value, trail) ==
  key \o Spaces(pad) \o value \o Spaces(trail) \o <<NewLine>>

\* AIMHeaderIO::WriteProcessingLog, m_ModificationDate being the current date
WriteProcessingLog(h) ==
  LogLine(<<33>>, 1, <<>>, 0)
    \o LogLine(LogKey.Title, 1, <<>>, 0)
    \o LogLine(<<33>>, 0, <<>>, 0)
    \o LogRule
    \o LogLine(LogKey.CreatedBy, 20, LogKey.Creator, 0)
    \o LogLine(LogKey.Time, 26, h.m_ModificationDate, 0)
    \o LogLine(LogKey.CreationDate, 8, h.m_CreationDate, 0)
    \o LogLine(LogKey.DimP, 35,
             FormatInt(h.m_ScanDimensionsPixels[1]) \o Spaces(7)
               \o FormatInt(h.m_ScanDimensionsPixels[2]) \o Spaces(8)
               \o FormatInt(h.m_ScanDimensionsPixels[3]), 0)
    \o LogLine(LogKey.DimUm, 34,
             FormatDouble(FracMul(h.m_ScanDimensionsPhysical[1], Frac(1000, 1))) \o Spaces(7)
               \o FormatDouble(FracMul(h.m_ScanDimensionsPhysical[2], Frac(1000, 1))) \o Spaces(8)
               \o FormatDouble(FracMul(h.m_ScanDimensionsPhysical[3], Frac(1000, 1))), 0)
    \o LogRule
    \o LogLine(LogKey.PatientName, 18, h.m_PatientName, 0)
    \o LogLine(LogKey.PatientIndex, 36, FormatInt(h.m_PatientIndex), 0)
    \o LogLine(LogKey.MeasurementIndex, 31, FormatInt(h.m_MeasurementIndex), 0)
    \o LogRule
    \o LogLine(LogKey.Site, 48, FormatInt(h.m_Site), 0)
    \o LogLine(LogKey.ScannerID, 39, FormatInt(h.m_ScannerID), 0)
    \o LogLine(LogKey.ScannerType, 40, FormatInt(h.m_ScannerType), 0)
    \o LogLine(LogKey.StartPosition, 26, FormatDouble(FracMul(h.m_StartPosition, Frac(1000, 1))), 0)
    \o LogLine(LogKey.NumberOfSamples, 38, FormatInt(h.m_NumberOfSamples), 0)
    \o LogLine(LogKey.NumberOfProjections, 27, FormatInt(h.m_NumberOfProjections), 0)
    \o LogLine(LogKey.ScanDistance, 29, FormatDouble(FracMul(h.m_ScanDistance, Frac(1000, 1))), 0)
    \o LogLine(LogKey.SampleTime, 26, FormatDouble(FracMul(h.m_SampleTime, Frac(1000, 1))), 0)
    \o LogLine(LogKey.ReferenceLine, 33, FormatDouble(FracMul(h.m_ReferenceLine, Frac(1000, 1))), 0)
    \o LogLine(LogKey.ReconstructionAlg, 33, FormatInt(h.m_ReconstructionAlg), 0)
    \o LogLine(LogKey.Energy, 38, FormatDouble(FracMul(h.m_Energy, Frac(1000, 1))), 0)
    \o LogLine(LogKey.Intensity, 35, FormatDouble(FracMul(h.m_Intensity, Frac(1000, 1))), 0)
    \o LogRule
    \o LogLine(LogKey.MuScaling, 39, FormatDouble(h.m_MuScaling), 0)
    \o LogLine(LogKey.CalibrationData, 14, h.m_CalibrationData, 11)
    \o LogLine(LogKey.RescaleType, 6, FormatInt(h.m_RescaleType), 38)
    \o LogLine(LogKey.RescaleUnits, 17, h.m_RescaleUnits, 41)
    \o LogLine(LogKey.RescaleSlope, 25, FormatDouble(h.m_RescaleSlope), 0)
    \o LogLine(LogKey.RescaleIntercept, 21, FormatDouble(h.m_RescaleIntercept), 0)
    \o LogLine(LogKey.MuWater, 34, FormatDouble(h.m_MuWater), 0)
    \o LogRule
    \o LogLine(LogKey.DataRangeMin, 28, FormatDouble(h.m_DataRange[1]), 0)
    \o LogLine(LogKey.DataRangeMax, 28, FormatDouble(h.m_DataRange[2]), 0)


\* three numbers in a row, each conversion continuing where the last stopped
ParseThree(value, Convert(_)) ==
  Local(Convert(value), LAMBDA first :
    Local(SubSeq(value, first.processed + 1, Len(value)), LAMBDA rest1 :
      Local(Convert(rest1), LAMBDA second :
        Local(SubSeq(rest1, second.processed + 1, Len(rest1)), LAMBDA rest2 :
          <<first.value, second.value, Convert(rest2).value>>))))

\* sizeof of the text members of itkScancoHeaderData
TextCapacity ==
  [m_CreationDate |-> 32, m_ModificationDate |-> 32, m_PatientName |-> 42,
   m_CalibrationData |-> 66, m_RescaleUnits |-> 18]

\* an int member after a copy ran over its first bytes: the characters past
\* the text member, the terminating NUL, and the bytes the int had
OverrunInt(old, tail) ==
  S32FromBytes([k \in 1..4 |-> IF k <= Len(tail) THEN tail[k]
                               ELSE IF k = Len(tail) + 1 THEN 0
                               ELSE EncodeInt(old)[k]])

\* strncpy(m_HeaderData->field, value.c_str(), value.length() + 1): the copy
\* is as long as the value, and what does not fit the member lands in the
\* member that follows it in itkScancoHeaderData (m_ModificationDate after
\* m_CreationDate, m_CalibrationData after m_RescaleUnits, m_PatientIndex
\* after m_PatientName, m_ScanDimensionsPixels after m_ModificationDate, the
\* low byte of m_RescaleSlope after m_CalibrationData); the text a member
\* holds ends at the first NUL, which then lies in the next member
strncpyField(h, field, value) ==
  IF Len(value) < TextCapacity[field] THEN [h EXCEPT ![field] = value]
  ELSE LET tail == SubSeq(value, TextCapacity[field] + 1, Len(value))
       IN  CASE field = "m_CreationDate" ->
                  [h EXCEPT !.m_CreationDate = value, !.m_ModificationDate = tail]
             [] field = "m_RescaleUnits" ->
                  [h EXCEPT !.m_RescaleUnits = value, !.m_CalibrationData = tail]
             [] field = "m_PatientName" ->
                  [h EXCEPT !.m_PatientName = value,
                            !.m_PatientIndex = OverrunInt(h.m_PatientIndex, tail)]
             [] field = "m_ModificationDate" ->
                  [h EXCEPT !.m_ModificationDate = value,
                            !.m_ScanDimensionsPixels[1] =
                               OverrunInt(h.m_ScanDimensionsPixels[1], tail)]
             [] OTHER -> [h EXCEPT ![field] = value]

\* the branch of ReadProcessingLog for a known key
ReadLogValue(h, key, value) ==
  CASE key = LogKey.Time -> strncpyField(h, "m_ModificationDate", value)
    [] key = LogKey.CreationDate -> strncpyField(h, "m_CreationDate", value)
    [] key = LogKey.DimP -> [h EXCEPT !.m_ScanDimensionsPixels = ParseThree(value, stol)]
    [] key = LogKey.DimUm ->
         [h EXCEPT !.m_ScanDimensionsPhysical =
            Local(ParseThree(value, stod),
                  LAMBDA um : [i \in 1..3 |-> FracMul(um[i], Frac(1, 1000))])]
    [] key = LogKey.PatientName -> strncpyField(h, "m_PatientName", value)
    [] key = LogKey.PatientIndex -> [h EXCEPT !.m_PatientIndex = stol(value).value]
    [] key = LogKey.MeasurementIndex -> [h EXCEPT !.m_MeasurementIndex = stol(value).value]
    [] key = LogKey.Site -> [h EXCEPT !.m_Site = stol(value).value]
    [] key = LogKey.ScannerID -> [h EXCEPT !.m_ScannerID = stol(value).value]
    [] key = LogKey.ScannerType -> [h EXCEPT !.m_ScannerType = stol(value).value]
    [] key = LogKey.StartPosition ->
         Local(FracMul(stod(value).value, Frac(1, 1000)),
               LAMBDA start :
                 [h EXCEPT !.m_StartPosition = start,
                           !.m_EndPosition =
                              FracAdd(start, FracMul(h.m_PixelData.m_Spacing[3],
                                                     Frac(h.m_PixelData.m_Dimensions[3] - 1, 1)))])
    [] key = LogKey.NumberOfSamples -> [h EXCEPT !.m_NumberOfSamples = stol(value).value]
    [] key = LogKey.NumberOfProjections ->
         [h EXCEPT !.m_NumberOfProjections = stol(value).value]
    [] key = LogKey.ScanDistance ->
         [h EXCEPT !.m_ScanDistance = FracMul(stod(value).value, Frac(1, 1000))]
    [] key = LogKey.SampleTime ->
         [h EXCEPT !.m_SampleTime = FracMul(stod(value).value, Frac(1, 1000))]
    [] key = LogKey.ReferenceLine ->
         [h EXCEPT !.m_ReferenceLine = FracMul(stod(value).value, Frac(1, 1000))]
    [] key = LogKey.ReconstructionAlg -> [h EXCEPT !.m_ReconstructionAlg = stol(value).value]
    [] key = LogKey.Energy -> [h EXCEPT !.m_Energy = FracMul(stod(value).value, Frac(1, 1000))]
    [] key = LogKey.Intensity ->
         [h EXCEPT !.m_Intensity = FracMul(stod(value).value, Frac(1, 1000))]
    [] key = LogKey.MuScaling -> [h EXCEPT !.m_MuScaling = Frac(stol(value).value, 1)]
    [] key = LogKey.DataRangeMin -> [h EXCEPT !.m_DataRange[1] = stod(value).value]
    [] key = LogKey.DataRangeMax -> [h EXCEPT !.m_DataRange[2] = stod(value).value]
    [] key = LogKey.RescaleType -> [h EXCEPT !.m_RescaleType = stol(value).value]
    [] key = LogKey.CalibrationData -> strncpyField(h, "m_CalibrationData", value)
    [] key = LogKey.RescaleUnits -> strncpyField(h, "m_RescaleUnits", value)
    [] key = LogKey.RescaleSlope -> [h EXCEPT !.m_RescaleSlope = stod(value).value]
    [] key = LogKey.RescaleIntercept -> [h EXCEPT !.m_RescaleIntercept = stod(value).value]
    [] key = LogKey.MuWater -> [h EXCEPT !.m_MuWater = stod(value).value]
    [] OTHER -> h

\* the body of the loop of ReadProcessingLog for one line: comment lines and
\* lines whose value is only spaces are skipped; without two spaces in the
\* line, find returns npos, the key is the line and the value starts at
\* position npos + 2 = 1
ReadLogLine(h, readString) ==
  IF readString # <<>> /\ readString[1] = 33 THEN h
  ELSE Local(FindTwoSpaces(readString), LAMBDA found :
         Local(SubSeq(readString, (IF found = -1 THEN 1 ELSE found + 2) + 1,
                      Len(readString)), LAMBDA value :
           IF \A i \in 1..Len(value) : value[i] = Space THEN h
           ELSE Local(IF found = -1 THEN readString ELSE SubSeq(readString, 1, found),
                      LAMBDA key :
                  Local(TrimSpaces(value), LAMBDA trimmed :
                    ReadLogValue(h, key, trimmed)))))

\* line k of the log, ends being the positions of its newlines
LineOf(log, ends, k) ==
  SubSeq(log,
         (IF k = 1 THEN 0
          ELSE CHOOSE i \in ends : Cardinality({j \in ends : j <= i}) = k - 1) + 1,
         (CHOOSE i \in ends : Cardinality({j \in ends : j <= i}) = k) - 1)

\* the lines getline delivers from the log
GetLines(log) ==
  Local({i \in 1..Len(log) : log[i] = NewLine},
        LAMBDA ends : [k \in 1..Cardinality(ends) |-> LineOf(log, ends, k)])

\* the loop of ReadProcessingLog over lines first..last, in order
RECURSIVE ReadLinesBetween(_, _, _, _)
ReadLinesBetween(h, lines, first, last) ==
  IF first > last THEN h
  ELSE IF first = last THEN ReadLogLine(h, lines[first])
  ELSE Local(ReadLinesBetween(h, lines, first, (first + last) \div 2), LAMBDA half :
         ReadLinesBetween(half, lines, (first + last) \div 2 + 1, last))

\* AIMHeaderIO::ReadProcessingLog(infile, offset, length) on a stream that
\* holds the log at offset, length being the length of the log
ReadProcessingLog(h, log) ==
  IF Len(log) = 0 THEN [headerData |-> h, result |-> -1]
  ELSE [headerData |-> Local(GetLines(log), LAMBDA lines : ReadLinesBetween(h, lines, 1, Len(lines))),
        result |-> Len(log)]

-----------------------------------------------------------------------------
(* A session that writes the processing log of an AIM header and parses it  *)
(* into a fresh header that has the pixel data of the struct header.        *)

\* the double a float converts to, for floats of magnitude 2^-30 .. 2^30
FloatToDouble(f) ==
  Local(f[1] + TwoTo8 * f[2] + TwoTo16 * f[3] + TwoTo24 * (f[4] % 128), LAMBDA bits :
    Local((IF f[4] >= 128 THEN -1 ELSE 1)
            * ((TwoTo24 \div 2) + (bits % (TwoTo24 \div 2))), LAMBDA significand :
      IF bits = 0 THEN Frac(0, 1)
      ELSE IF bits \div (TwoTo24 \div 2) >= 150
      THEN Frac(significand * Pow2((bits \div (TwoTo24 \div 2)) - 150), 1)
      ELSE Frac(significand, Pow2(150 - (bits \div (TwoTo24 \div 2))))))

\* AIMHeaderIO::ReadPreHeader on the first bytes of the file: 0, or -1 when
\* the stored pre-header length is not the size of the pre-header
AIMReadPreHeader(head, intSize) ==
  IF intSize = 4
  THEN IF DecodeInt(SubSeq(head, 1, 4)) # 20 THEN -1 ELSE 0
  ELSE IF DecodeInt64(SubSeq(head, 17, 24)) # [a |-> 0, b |-> 0, c |-> 40] THEN -1 ELSE 0

\* AIMHeaderIO::ReadImgStructHeader, both overloads: the element size is a
\* float in AIM v020 and an integer number of nanometres in AIM v030
ReadImgStructHeader(h, intSize, structHeader) ==
  Local([i \in 1..3 |->
           Local(IF intSize = 4 THEN FloatToDouble(DecodeFloat(structHeader.m_ElementSize[i]))
                 ELSE Frac(DecodeInt(structHeader.m_ElementSize[i]), 1000000), LAMBDA spacing :
             IF spacing.n = 0 /\ spacing.d # 0 THEN Frac(1, 1) ELSE spacing)], LAMBDA spacing :
    [h EXCEPT !.m_PixelData =
       [m_ComponentType |-> DecodeInt(structHeader.m_Type),
        m_Dimensions |-> [i \in 1..3 |-> DecodeInt(structHeader.m_Dimension[i])],
        m_Spacing |-> spacing,
        m_Origin |-> [i \in 1..3 |->
                        FracMul(Frac(DecodeInt(structHeader.m_Position[i]), 1), spacing[i])]]])

\* the mutant of AIMReadHeader: the image structure header and the log are
\* read and the header is left as the log reader left it
AIMReadHeaderLogOnly(h, file) ==
  [threw |-> FALSE,
   headerData |->
     ReadProcessingLog(ReadImgStructHeader(h, 4, file.structHeader), file.log).headerData]

\* AIMHeaderIO::ReadHeader(infile) on a file given as its first 24 bytes, its
\* image structure header and its processing log
AIMReadHeader(h, file) ==
  Local(CheckVersion(SubSeq(file.head, 1, 16)), LAMBDA versionType :
    IF versionType = CTHEADER THEN [threw |-> TRUE, headerData |-> h]
    ELSE
      Local(IF versionType = AIM_030 THEN 8 ELSE 4, LAMBDA intSize :
        Local([h EXCEPT !.m_Version = IF intSize = 8 THEN AIM030String ELSE AIM020String],
              LAMBDA versioned :
          IF AIMReadPreHeader(file.head, intSize) # 0
          THEN [threw |-> TRUE, headerData |-> versioned]
          ELSE
            Local(ReadProcessingLog(
                    ReadImgStructHeader(versioned, intSize, file.structHeader),
                    file.log).headerData, LAMBDA logged :
              [threw |-> FALSE,
               headerData |->
                 [logged EXCEPT !.m_SliceThickness = logged.m_PixelData.m_Spacing[3],
                                !.m_SliceIncrement = logged.m_PixelData.m_Spacing[3]]]))))

\* what GetCurrentDateString leaves in m_ModificationDate at two moments, in
\* November 2026 and in January 2027: "3-OCT-2026 06:04:05.000" and
\* "14-XXX-2027 23:59:59.000"
CurrentDateStrings ==
  {GetCurrentDateString([tm_year |-> 126, tm_mon |-> 10, tm_mday |-> 3, tm_hour |-> 6,
                         tm_min |-> 4, tm_sec |-> 5]),
   GetCurrentDateString([tm_year |-> 127, tm_mon |-> 0, tm_mday |-> 14, tm_hour |-> 23,
                         tm_min |-> 59, tm_sec |-> 59])}

FreshAIMHeader ==
  [FreshHeader EXCEPT !.m_RescaleSlope = Frac(0, 1), !.m_RescaleIntercept = Frac(0, 1),
                      !.m_MuWater = Frac(0, 1)]

\* the header of the test volume of itkScancoImageIOTest3.cxx
TestAIMHeader ==
  [TestHeader EXCEPT
     !.m_Version = AIM020String,
     !.m_PatientIndex = 2573, !.m_ScannerID = 3401,
     \* "14-JAN-2020 12:23:35.626"
     !.m_CreationDate = <<49, 52, 45, 74, 65, 78, 45, 50, 48, 50, 48, 32, 49, 50, 58, 50, 51, 58, 51, 53, 46, 54, 50, 54>>,
     !.m_ModificationDate = <<>>,
     !.m_ScanDimensionsPixels = <<2304, 2304, 110>>,
     !.m_ScanDimensionsPhysical = <<Milli(139852), Milli(139852), Milli(6677)>>,
     !.m_SliceThickness = Frac(607, 10000), !.m_SliceIncrement = Frac(607, 10000),
     !.m_StartPosition = Milli(114845), !.m_EndPosition = Frac(1214613, 10000),
     !.m_DataRange = <<Frac(-2478, 1), Frac(11662, 1)>>,
     !.m_MuScaling = Frac(8192, 1),
     !.m_NumberOfSamples = 2304, !.m_NumberOfProjections = 900,
     !.m_ScanDistance = Milli(139852), !.m_SampleTime = Milli(43000),
     !.m_ScannerType = 9, !.m_MeasurementIndex = 12839, !.m_Site = 21,
     !.m_ReconstructionAlg = 3, !.m_ReferenceLine = Frac(105, 1),
     !.m_Energy = Milli(68000), !.m_Intensity = Milli(1470),
     \* "68 kVp, BH: 200 mg HA/ccm, Scaling 8192, 0.2 CU"
     !.m_CalibrationData = <<54, 56, 32, 107, 86, 112, 44, 32, 66, 72, 58, 32, 50, 48, 48, 32, 109, 103, 32, 72, 65, 47, 99, 99, 109, 44, 32, 83, 99, 97, 108, 105, 110, 103, 32, 56, 49, 57, 50, 44, 32, 48, 46, 50, 32, 67, 85>>,
     !.m_RescaleSlope = Frac(160351904, 100000),
     !.m_RescaleIntercept = Frac(-391209015, 1000000),
     !.m_MuWater = Frac(2409, 10000),
     !.m_PixelData = [m_Dimensions |-> <<2304, 2304, 110>>,
                      m_Spacing |-> <<Frac(607, 10000), Frac(607, 10000), Frac(607, 10000)>>,
                      m_Origin |-> <<0, 0, 0>>, m_ComponentType |-> 3]]

\* patient names "", "Zukic", " Zukic", "Zukic ", "A  B"; mu_scaling 8192, 1
\* and 0.5; with and without creation date and units; a negative position
AIMHeaders ==
  {[TestAIMHeader EXCEPT !.m_PatientName = name, !.m_MuScaling = mu,
                         !.m_CreationDate = date, !.m_RescaleUnits = units,
                         !.m_StartPosition = start] :
     name \in {<<>>, <<90, 117, 107, 105, 99>>, <<32, 90, 117, 107, 105, 99>>, <<90, 117, 107, 105, 99, 32>>, <<65, 32, 32, 66>>},
     mu \in {Frac(8192, 1), Frac(1, 1), Frac(1, 2)},
     date \in {<<>>, TestAIMHeader.m_CreationDate},
     units \in {<<>>, TestAIMHeader.m_RescaleUnits},
     start \in {Milli(114845), Milli(-500)}}

InitAIM ==
  /\ session = "aim"
  /\ step = "start"
  /\ fn = "AIMHeaderIO"
  /\ input \in AIMHeaders
  /\ target = <<>>
  /\ output = None

CallWriteProcessingLog ==
  /\ session = "aim" /\ step = "start"
  /\ \E now \in CurrentDateStrings :
        /\ output' = [headerData |-> [input EXCEPT !.m_ModificationDate = now]]
        /\ target' = WriteProcessingLog([input EXCEPT !.m_ModificationDate = now])
  /\ step' = "written"
  /\ UNCHANGED <<session, fn, input>>

CallReadProcessingLog ==
  /\ session = "aim" /\ step = "written"
  /\ LET r == ReadProcessingLog(
                [FreshAIMHeader EXCEPT !.m_PixelData = output.headerData.m_PixelData],
                target)
     IN  output' = [headerData |-> output.headerData, read |-> r.headerData,
                    result |-> r.result]
  /\ step' = "read"
  /\ UNCHANGED <<session, fn, input, target>>

\* image structure headers of files handed to the AIM reader: 4 x 4 x 3 voxels
\* of 0.5 x 0.5 x 0.25 at position (0, 0, 2) and 2 x 2 x 1 voxels with a zero
\* element size on the last axis, as AIM v020 (floats) and as AIM v030
\* (nanometres in 8 bytes)
AIMStructHeaders(intSize) ==
  IF intSize = 4
  THEN {[m_Type |-> EncodeInt(3),
         m_Dimension |-> <<EncodeInt(4), EncodeInt(4), EncodeInt(3)>>,
         m_ElementSize |-> <<EncodeFloat(<<0, 0, 0, 63>>), EncodeFloat(<<0, 0, 0, 63>>),
                             EncodeFloat(<<0, 0, 128, 62>>)>>,
         m_Position |-> <<EncodeInt(0), EncodeInt(0), EncodeInt(2)>>],
        [m_Type |-> EncodeInt(3),
         m_Dimension |-> <<EncodeInt(2), EncodeInt(2), EncodeInt(1)>>,
         m_ElementSize |-> <<EncodeFloat(<<0, 0, 0, 63>>), EncodeFloat(<<0, 0, 0, 63>>),
                             EncodeFloat(<<0, 0, 0, 0>>)>>,
         m_Position |-> <<EncodeInt(0), EncodeInt(0), EncodeInt(0)>>]}
  ELSE {[m_Type |-> EncodeInt(3),
         m_Dimension |-> [i \in 1..3 |-> EncodeInt64([a |-> 0, b |-> 0, c |-> dim[i]])],
         m_ElementSize |-> [i \in 1..3 |-> EncodeInt64([a |-> 0, b |-> 0, c |-> size[i]])],
         m_Position |-> [i \in 1..3 |-> EncodeInt64([a |-> 0, b |-> 0, c |-> 0])]] :
        dim \in {<<4, 4, 3>>}, size \in {<<60700, 60700, 60700>>, <<500000, 500000, 0>>}}

\* files handed to the AIM reader: AIM v020 and AIM v030 files with the log
\* just written or with no log at all, a file whose pre-header length is
\* wrong, and a file that starts with the ISQ tag
AIMFiles(log) ==
  {[head |-> EncodeInt(20) \o EncodeInt(140) \o Zeros(16), structHeader |-> structHeader,
    log |-> IF DecodeInt(structHeader.m_Dimension[3]) = 3 THEN log ELSE <<>>] :
     structHeader \in AIMStructHeaders(4)}
    \cup
  {[head |-> AIM030String \o <<0>> \o EncodeInt64([a |-> 0, b |-> 0, c |-> 40]),
    structHeader |-> structHeader,
    log |-> IF DecodeInt(structHeader.m_ElementSize[3]) = 0 THEN <<>> ELSE log] :
     structHeader \in AIMStructHeaders(8)}
    \cup
  {[head |-> head, structHeader |-> structHeader, log |-> log] :
     head \in {AIM030String \o <<0>> \o EncodeInt64([a |-> 0, b |-> 0, c |-> 41]),
               ISQVersionString \o Zeros(8)},
     structHeader \in {s \in AIMStructHeaders(4) : DecodeInt(s.m_Dimension[3]) = 1}}

\* AIMHeaderIO::ReadHeader(infile) by a reader that holds a fresh header
CallAIMReadHeader ==
  /\ session = "aim" /\ step = "written"
  /\ \E file \in AIMFiles(target) :
       \E r \in {AIMReadHeader(FreshAIMHeader, file)} :
          /\ step' = IF r.threw THEN "threw" ELSE "header read"
          /\ output' = [headerData |-> output.headerData, file |-> file,
                        read |-> r.headerData]
  /\ UNCHANGED <<session, fn, input, target>>

NextAIM ==
  \/ CallWriteProcessingLog
  \/ CallReadProcessingLog
  \/ CallAIMReadHeader

SpecAIM == InitAIM /\ [][NextAIM]_vars

-----------------------------------------------------------------------------
(* AIMHeaderIO::WriteHeader and ReadHeader on the bytes of the stream       *)
(* (itkAIMHeaderIO.cxx).  An unsigned long beyond the range of the model's  *)
(* integers is the negative number it is congruent to modulo 2^64.          *)

\* sizeof(AIMPreHeaderV020), sizeof(AIMPreHeaderV030)
AIMPreHeaderV020Size == 20
AIMPreHeaderV030Size == 40

\* sizeof(AIMV020StructHeader), sizeof(AIMV030StructHeader)
AIMV020StructHeaderSize == 140
AIMV030StructHeaderSize == 224

\* outfile.write(AIM030String, 16): the tag and its NUL
AIMVersionTagSize == 16

\* num / den brought into [1, 2) by doubling, with the binary exponent
RECURSIVE NormaliseBinary(_, _, _)
NormaliseBinary(num, den, e) ==
  IF num >= 2 * den THEN NormaliseBinary(num, 2 * den, e + 1)
  ELSE IF num < den THEN NormaliseBinary(2 * num, den, e - 1)
  ELSE [num |-> num, den |-> den, e |-> e]

\* k more bits of the quotient, r being the remainder so far
RECURSIVE SignificandBits(_, _, _, _)
SignificandBits(acc, r, den, k) ==
  IF k = 0 THEN [significand |-> acc, r |-> r]
  ELSE IF 2 * r >= den THEN SignificandBits(2 * acc + 1, 2 * r - den, den, k - 1)
  ELSE SignificandBits(2 * acc, 2 * r, den, k - 1)

\* the conversion of a double to float, as its bit pattern: round to
\* nearest, ties to even, for magnitudes in the normal range
DoubleToFloat(x) ==
  IF x.n = 0 THEN <<0, 0, 0, 0>>
  ELSE
    Local(NormaliseBinary(Abs(x.n), x.d, 0), LAMBDA y :
      Local(SignificandBits(1, y.num - y.den, y.den, 23), LAMBDA q :
        Local(IF 2 * q.r > y.den \/ (2 * q.r = y.den /\ q.significand % 2 = 1)
              THEN q.significand + 1 ELSE q.significand, LAMBDA rounded :
          Local((y.e + 126) * (TwoTo24 \div 2) + rounded, LAMBDA bits :
            <<ByteOfInt(bits, 0), ByteOfInt(bits, 1), ByteOfInt(bits, 2),
              ByteOfInt(bits, 3) + (IF x.n < 0 THEN 128 ELSE 0)>>))))

\* an int or a small size_t passed where EncodeInt64 takes an int64_t
Int64FromInt(n) ==
  IF n >= 0 THEN [a |-> 0, b |-> n \div TwoTo24, c |-> n % TwoTo24]
  ELSE [a |-> -1, b |-> TwoTo24 + ((n - (n % TwoTo24)) \div TwoTo24), c |-> n % TwoTo24]

\* the unsigned long a decoded int64_t converts to
LongFromInt64(r) ==
  IF r.a = 0 THEN r.b * TwoTo24 + r.c ELSE (r.b - TwoTo24) * TwoTo24 + r.c

\* m_Origin[i] / (float)m_Spacing[i], converted to the integer argument
PositionOf(origin, spacing) ==
  FracToInt(FracDiv(origin, FloatToDouble(DoubleToFloat(spacing))))

\* AIMHeaderIO::WriteStructHeaderV020: the 140 bytes of the structure
WriteStructHeaderV020(h) ==
  StoreAll(Zeros(AIMV020StructHeaderSize),
    <<<<20, EncodeInt(h.m_PixelData.m_ComponentType)>>,
      <<0, EncodeFloat(DoubleToFloat(Frac(16, 10)))>>>>
    \o [i \in 1..3 |-> <<36 + 4 * (i - 1),
                        EncodeInt(h.m_PixelData.m_Dimensions[i])>>]
    \o [i \in 1..3 |-> <<108 + 4 * (i - 1),
                        EncodeFloat(DoubleToFloat(h.m_PixelData.m_Spacing[i]))>>]
    \o [i \in 1..3 |-> <<24 + 4 * (i - 1),
                        EncodeInt(PositionOf(h.m_PixelData.m_Origin[i],
                                                       h.m_PixelData.m_Spacing[i]))>>])

\* AIMHeaderIO::WriteStructHeaderV030: the 224 bytes of the structure
WriteStructHeaderV030(h) ==
  StoreAll(Zeros(AIMV030StructHeaderSize),
    <<<<12, EncodeInt(h.m_PixelData.m_ComponentType)>>>>
    \o [i \in 1..3 |-> <<40 + 8 * (i - 1),
                        EncodeInt64(Int64FromInt(h.m_PixelData.m_Dimensions[i]))>>]
    \o [i \in 1..3 |-> <<184 + 8 * (i - 1),
                        EncodeInt64(Int64FromInt(
                                    FracToInt(FracMul(h.m_PixelData.m_Spacing[i],
                                                      Frac(1000000, 1)))))>>]
    \o [i \in 1..3 |-> <<16 + 8 * (i - 1),
                        EncodeInt64(Int64FromInt(
                                    PositionOf(h.m_PixelData.m_Origin[i],
                                               h.m_PixelData.m_Spacing[i])))>>])

\* the mutant of WritePreHeader: the lengths of the image structure and of
\* the log change places
WritePreHeaderSwapped(imgStructSize, processingLogSize, imageSize, version) ==
  IF version = AIM_020
  THEN EncodeInt(AIMPreHeaderV020Size) \o EncodeInt(processingLogSize)
         \o EncodeInt(imgStructSize) \o EncodeInt(imageSize) \o EncodeInt(0)
  ELSE EncodeInt64(Int64FromInt(AIMPreHeaderV030Size))
         \o EncodeInt64(Int64FromInt(processingLogSize))
         \o EncodeInt64(Int64FromInt(imgStructSize))
         \o EncodeInt64(Int64FromInt(imageSize)) \o EncodeInt64(Int64FromInt(0))

\* AIMHeaderIO::WritePreHeader on an open stream: the bytes written
WritePreHeader(imgStructSize, processingLogSize, imageSize, version) ==
  IF version = AIM_020
  THEN EncodeInt(AIMPreHeaderV020Size) \o EncodeInt(imgStructSize)
         \o EncodeInt(processingLogSize) \o EncodeInt(imageSize) \o EncodeInt(0)
  ELSE EncodeInt64(Int64FromInt(AIMPreHeaderV030Size))
         \o EncodeInt64(Int64FromInt(imgStructSize))
         \o EncodeInt64(Int64FromInt(processingLogSize))
         \o EncodeInt64(Int64FromInt(imageSize)) \o EncodeInt64(Int64FromInt(0))

\* AIMHeaderIO::WriteHeader(outfile, imageSize) on an open stream, h holding
\* the current date in m_ModificationDate: the file, the sizes the object
\* keeps, the final stream position and the value returned
AIMWriteHeader(h, imageSize) ==
  Local(WriteProcessingLog(h), LAMBDA processingLog :
    LET v030 == strcmpEq(h.m_Version, AIM030String)
        structHeader == IF v030 THEN WriteStructHeaderV030(h) ELSE WriteStructHeaderV020(h)
        preHeader == WritePreHeader(Len(structHeader), Len(processingLog), imageSize,
                                    IF v030 THEN AIM_030 ELSE AIM_020)
        file == (IF v030 THEN AIM030String \o <<0>> ELSE <<>>)
                  \o preHeader \o structHeader \o processingLog
        total == (IF v030 THEN AIMVersionTagSize ELSE 0) + Len(preHeader)
                   + Len(structHeader) + Len(processingLog)
    IN  [threw |-> Len(file) # total,
         file |-> file,
         tellp |-> Len(file),
         m_PreHeaderSize |-> Len(preHeader),
         m_ImgStructSize |-> Len(structHeader),
         m_ProcessingLogSize |-> Len(processingLog),
         result |-> total])

\* what a block just obtained from the heap holds before it is written: zeros,
\* or the pre-header and image structure of a file read earlier
StaleMemories ==
  {[preHeaderV020 |-> Zeros(AIMPreHeaderV020Size),
    preHeaderV030 |-> Zeros(AIMPreHeaderV030Size),
    structHeader |-> Zeros(AIMV030StructHeaderSize)],
   [preHeaderV020 |-> WritePreHeader(AIMV020StructHeaderSize, 100, 48, AIM_020),
    preHeaderV030 |-> WritePreHeader(AIMV030StructHeaderSize, 100, 48, AIM_030),
    structHeader |-> WriteStructHeaderV030(
                       [TestAIMHeader EXCEPT
                          !.m_PixelData = [m_Dimensions |-> <<4, 4, 3>>,
                                           m_Spacing |-> <<Frac(1, 2), Frac(1, 2), Frac(1, 4)>>,
                                           m_Origin |-> <<Frac(0, 1), Frac(0, 1), Frac(1, 2)>>,
                                           m_ComponentType |-> 3]])]}

\* file.read(dest, count) at position offset of a stream in good state:
\* the bytes of dest afterwards, dest holding stale before
StreamRead(file, offset, count, stale) ==
  [k \in 1..count |-> IF offset + k <= Len(file) THEN file[offset + k] ELSE stale[k]]

\* AIMHeaderIO::ReadPreHeader(file, offset), the stream being in a failed
\* state when the 512-byte read before it met the end of the file
AIMReadPreHeaderOfStream(file, offset, intSize, stale) ==
  Local(IF Len(file) < ScancoHeaderBlockSize
        THEN (IF intSize = 4 THEN stale.preHeaderV020 ELSE stale.preHeaderV030)
        ELSE StreamRead(file, offset, IF intSize = 4 THEN AIMPreHeaderV020Size
                                      ELSE AIMPreHeaderV030Size,
                        IF intSize = 4 THEN stale.preHeaderV020 ELSE stale.preHeaderV030),
        LAMBDA headerData :
    IF intSize = 4
    THEN [result |-> IF DecodeInt(Load(headerData, 0, 4)) # AIMPreHeaderV020Size THEN -1 ELSE 0,
          m_PreHeaderSize |-> DecodeInt(Load(headerData, 0, 4)),
          m_ImgStructSize |-> DecodeInt(Load(headerData, 4, 4)),
          m_ProcessingLogSize |-> DecodeInt(Load(headerData, 8, 4))]
    ELSE [result |-> IF DecodeInt64(Load(headerData, 0, 8)) # Int64FromInt(AIMPreHeaderV030Size)
                     THEN -1 ELSE 0,
          m_PreHeaderSize |-> LongFromInt64(DecodeInt64(Load(headerData, 0, 8))),
          m_ImgStructSize |-> LongFromInt64(DecodeInt64(Load(headerData, 8, 8))),
          m_ProcessingLogSize |-> LongFromInt64(DecodeInt64(Load(headerData, 16, 8)))])

\* the fields ReadImgStructHeader decodes, at their places in the structure
StructHeaderFields(structHeader, intSize) ==
  IF intSize = 4
  THEN [m_Type |-> Load(structHeader, 20, 4),
        m_Position |-> [i \in 1..3 |-> Load(structHeader, 24 + 4 * (i - 1), 4)],
        m_Dimension |-> [i \in 1..3 |-> Load(structHeader, 36 + 4 * (i - 1), 4)],
        m_ElementSize |-> [i \in 1..3 |-> Load(structHeader, 108 + 4 * (i - 1), 4)]]
  ELSE [m_Type |-> Load(structHeader, 12, 4),
        m_Position |-> [i \in 1..3 |-> Load(structHeader, 16 + 8 * (i - 1), 8)],
        m_Dimension |-> [i \in 1..3 |-> Load(structHeader, 40 + 8 * (i - 1), 8)],
        m_ElementSize |-> [i \in 1..3 |-> Load(structHeader, 184 + 8 * (i - 1), 8)]]

\* the bytes the getline loop of ReadProcessingLog(infile, offset, length)
\* takes from the stream: lines up to the first one that ends at or after
\* length bytes, or every complete line when the stream ends before
LogOfStream(file, offset, length) ==
  IF length = 0 \/ offset < 0 \/ offset >= Len(file) THEN <<>>
  ELSE Local({i \in 1..(Len(file) - offset) : file[offset + i] = NewLine}, LAMBDA ends :
         Local({i \in ends : ~ULess(i, length)}, LAMBDA enough :
           IF ends = {} THEN <<>>
           ELSE SubSeq(file, offset + 1,
                       offset + (IF enough = {}
                                 THEN CHOOSE i \in ends : \A j \in ends : j <= i
                                 ELSE CHOOSE i \in enough : \A j \in enough : i <= j))))

\* AIMHeaderIO::ReadHeader(infile) on an open stream.  Besides the header and
\* the value returned: the bytes memcpy moves into the image structure, the
\* size of that structure, the place in headerBytes the copy starts at, the
\* size of headerBytes and how much of it infile.read filled; the blocks
\* obtained with new and not deleted when the function is left; what became
\* of the block m_RawHeader pointed to before and of m_RawHeader itself
AIMReadHeaderOfStream(h, file, stale) ==
  LET versionType == CheckVersion(StreamRead(file, 0, 16, stale.structHeader))
      intSize == IF versionType = AIM_030 THEN 8 ELSE 4
      tag == IF versionType = AIM_030 THEN AIMVersionTagSize ELSE 0
      versioned == [h EXCEPT !.m_Version = IF intSize = 8 THEN AIM030String
                                           ELSE AIM020String]
      pre == AIMReadPreHeaderOfStream(file, tag, intSize, stale)
      headerSize == pre.m_PreHeaderSize + pre.m_ImgStructSize + pre.m_ProcessingLogSize
      capacity == IF intSize = 4 THEN AIMV020StructHeaderSize ELSE AIMV030StructHeaderSize
      bufferSize == IF ULess(ScancoHeaderBlockSize, headerSize) THEN headerSize + tag
                    ELSE ScancoHeaderBlockSize
      bytesRead == tag + pre.m_PreHeaderSize
      structHeader == [k \in 1..capacity |->
                         IF ~ULess(pre.m_ImgStructSize, k) /\ bytesRead + k <= Len(file)
                            /\ bytesRead + k <= bufferSize
                         THEN file[bytesRead + k] ELSE stale.structHeader[k]]
      log == IF Len(file) < bufferSize THEN <<>>
             ELSE LogOfStream(file, bytesRead + pre.m_ImgStructSize, pre.m_ProcessingLogSize)
  IN  IF versionType = CTHEADER
      THEN [threw |-> TRUE, headerData |-> h, result |-> 0, copied |-> 0, capacity |-> 0,
            copyFrom |-> 0, bufferSize |-> ScancoHeaderBlockSize,
            filled |-> Min(Len(file), ScancoHeaderBlockSize),
            blocksLeft |-> 1, previousRawHeader |-> "kept", rawHeader |-> "previous"]
      ELSE IF pre.result # 0
      THEN [threw |-> TRUE, headerData |-> versioned, result |-> 0, copied |-> 0,
            capacity |-> 0, copyFrom |-> 0, bufferSize |-> ScancoHeaderBlockSize,
            filled |-> Min(Len(file), ScancoHeaderBlockSize),
            blocksLeft |-> 2, previousRawHeader |-> "kept", rawHeader |-> "previous"]
      ELSE IF ULess(ScancoHeaderBlockSize, headerSize) /\ headerSize + tag < 0
      THEN \* new char[headerSize] throws std::bad_alloc after both deletes
           [threw |-> TRUE, headerData |-> versioned, result |-> 0, copied |-> 0,
            capacity |-> capacity, copyFrom |-> 0, bufferSize |-> 0, filled |-> 0,
            blocksLeft |-> 0, previousRawHeader |-> "deleted", rawHeader |-> "dangling"]
      ELSE
        Local(ReadProcessingLog(
                ReadImgStructHeader(versioned, intSize,
                                    StructHeaderFields(structHeader, intSize)),
                log).headerData, LAMBDA logged :
          [threw |-> FALSE,
           headerData |->
             [logged EXCEPT !.m_SliceThickness = logged.m_PixelData.m_Spacing[3],
                            !.m_SliceIncrement = logged.m_PixelData.m_Spacing[3]],
           result |-> bytesRead + pre.m_ImgStructSize + pre.m_ProcessingLogSize,
           copied |-> pre.m_ImgStructSize,
           capacity |-> capacity,
           copyFrom |-> bytesRead,
           bufferSize |-> bufferSize,
           filled |-> Min(Len(file), bufferSize),
           blocksLeft |-> 0,
           previousRawHeader |-> IF ULess(ScancoHeaderBlockSize, headerSize)
                                 THEN "deleted" ELSE "kept",
           rawHeader |-> "headerBytes"])

-----------------------------------------------------------------------------
(* A session that writes an AIM header to a stream with WriteHeader and     *)
(* hands the stream, as written or with other lengths in its pre-header or  *)
(* cut short, to ReadHeader of a reader that holds a fresh header.          *)

\* AIM v020 and v030 headers of volumes of 4 x 4 x 3 voxels of 0.5 x 0.5 x
\* 0.25 at (0, 0, 0.5) and of 2304 x 2304 x 110 voxels of 0.0625
AIMFileHeaders ==
  {[TestAIMHeader EXCEPT !.m_Version = version, !.m_PixelData = pixelData] :
     version \in {AIM020String, AIM030String},
     pixelData \in
       {[m_Dimensions |-> <<4, 4, 3>>,
         m_Spacing |-> <<Frac(1, 2), Frac(1, 2), Frac(1, 4)>>,
         m_Origin |-> <<Frac(0, 1), Frac(0, 1), Frac(1, 2)>>, m_ComponentType |-> 3],
        [m_Dimensions |-> <<2304, 2304, 110>>,
         m_Spacing |-> <<Frac(1, 16), Frac(1, 16), Frac(1, 16)>>,
         m_Origin |-> <<Frac(0, 1), Frac(0, 1), Frac(0, 1)>>, m_ComponentType |-> 3]}}

\* the sizes of the pixel data of the two volumes, in bytes
AIMImageSizes == {96, 1167851520 - 1000000000}

\* the file with other lengths of the image structure and of the log in its
\* pre-header, cut to fileLength bytes
CraftedAIMFile(file, intSize, structLength, logLength, fileLength) ==
  Local(IF intSize = 8 THEN AIMVersionTagSize ELSE 0, LAMBDA tag :
    SubSeq(StoreAll(file,
             << <<tag + intSize,
                  IF intSize = 8 THEN EncodeInt64(Int64FromInt(structLength))
                  ELSE EncodeInt(structLength)>>,
                <<tag + 2 * intSize,
                  IF intSize = 8 THEN EncodeInt64(Int64FromInt(logLength))
                  ELSE EncodeInt(logLength)>> >>),
           1, fileLength))

InitAIMFile ==
  /\ session = "aimfile"
  /\ step = "start"
  /\ fn = "AIMHeaderIO"
  /\ input \in AIMFileHeaders
  /\ target = <<>>
  /\ output = None

\* AIMHeaderIO::WriteHeader(outfile, imageSize) on an open stream
CallAIMWriteHeader ==
  /\ session = "aimfile" /\ step = "start"
  /\ \E now \in CurrentDateStrings, imageSize \in AIMImageSizes :
       \E r \in {AIMWriteHeader([input EXCEPT !.m_ModificationDate = now], imageSize)} :
          /\ step' = IF r.threw THEN "write threw" ELSE "file written"
          /\ target' = r.file
          /\ output' = [headerData |-> [input EXCEPT !.m_ModificationDate = now],
                        imageSize |-> imageSize,
                        written |-> [tellp |-> r.tellp, result |-> r.result,
                                     m_PreHeaderSize |-> r.m_PreHeaderSize,
                                     m_ImgStructSize |-> r.m_ImgStructSize,
                                     m_ProcessingLogSize |-> r.m_ProcessingLogSize]]
  /\ UNCHANGED <<session, fn, input>>

\* AIMHeaderIO::ReadHeader(infile) on the file just written
CallAIMReadHeaderBack ==
  /\ session = "aimfile" /\ step = "file written"
  /\ \E stale \in StaleMemories :
       \E r \in {AIMReadHeaderOfStream(FreshAIMHeader, target, stale)} :
          /\ step' = IF r.threw THEN "read threw" ELSE "file read"
          /\ output' = [headerData |-> output.headerData, imageSize |-> output.imageSize,
                        written |-> output.written, read |-> r]
  /\ UNCHANGED <<session, fn, input, target>>

\* AIMHeaderIO::ReadHeader(infile) on a file of another origin; a copy past
\* the end of the image structure damages the heap, and the call then ends
\* abnormally or returns
CallAIMReadHeaderOfFile ==
  /\ session = "aimfile" /\ step = "file written"
  /\ \E structLength \in {output.written.m_ImgStructSize, 0,
                          output.written.m_ImgStructSize + 1, 300, -1},
        logLength \in {output.written.m_ProcessingLogSize, 100},
        fileLength \in {Len(target), 100, 600},
        stale \in StaleMemories :
       \E file \in {CraftedAIMFile(target, IF output.written.m_PreHeaderSize = 40 THEN 8 ELSE 4,
                                   structLength, logLength, fileLength)} :
         \E r \in {AIMReadHeaderOfStream(FreshAIMHeader, file, stale)} :
            /\ step' \in IF r.threw THEN {"crafted threw"}
                         ELSE IF r.copied < 0 THEN {"crafted fault"}
                         ELSE IF ULess(r.capacity, r.copied)
                         THEN {"crafted fault", "crafted read"}
                         ELSE {"crafted read"}
            /\ target' = file
            /\ output' = [headerData |-> output.headerData, imageSize |-> output.imageSize,
                          written |-> output.written, read |-> r]
  /\ UNCHANGED <<session, fn, input>>

NextAIMFile ==
  \/ CallAIMWriteHeader
  \/ CallAIMReadHeaderBack
  \/ CallAIMReadHeaderOfFile

SpecAIMFile == InitAIMFile /\ [][NextAIMFile]_vars

-----------------------------------------------------------------------------
(* A session that hands ReadProcessingLog a log of one line.                *)

\* the keys ReadProcessingLog compares the key of a line with, and the
\* member the branch of each assigns
LogKeyField ==
  [Time |-> "m_ModificationDate", CreationDate |-> "m_CreationDate",
   DimP |-> "m_ScanDimensionsPixels", DimUm |-> "m_ScanDimensionsPhysical",
   PatientName |-> "m_PatientName", PatientIndex |-> "m_PatientIndex",
   MeasurementIndex |-> "m_MeasurementIndex", Site |-> "m_Site",
   ScannerID |-> "m_ScannerID", ScannerType |-> "m_ScannerType",
   StartPosition |-> "m_StartPosition", NumberOfSamples |-> "m_NumberOfSamples",
   NumberOfProjections |-> "m_NumberOfProjections", ScanDistance |-> "m_ScanDistance",
   SampleTime |-> "m_SampleTime", ReferenceLine |-> "m_ReferenceLine",
   ReconstructionAlg |-> "m_ReconstructionAlg", Energy |-> "m_Energy",
   Intensity |-> "m_Intensity", MuScaling |-> "m_MuScaling",
   DataRangeMin |-> "m_DataRange", DataRangeMax |-> "m_DataRange",
   RescaleType |-> "m_RescaleType", CalibrationData |-> "m_CalibrationData",
   RescaleUnits |-> "m_RescaleUnits", RescaleSlope |-> "m_RescaleSlope",
   RescaleIntercept |-> "m_RescaleIntercept", MuWater |-> "m_MuWater"]

\* the keys whose value is copied as text, converted with stol, with stod
TextKeys == {"Time", "CreationDate", "PatientName", "CalibrationData", "RescaleUnits"}

StolKeys ==
  {"DimP", "PatientIndex", "MeasurementIndex", "Site", "ScannerID", "ScannerType",
   "NumberOfSamples", "NumberOfProjections", "ReconstructionAlg", "MuScaling",
   "RescaleType"}

\* readString.substr(npos + 2) throws std::out_of_range for an empty line;
\* stol and stod throw std::invalid_argument for a value without a number,
\* before the member is assigned
LogLineThrows(readString) ==
  IF readString = <<>> THEN TRUE
  ELSE IF readString[1] = 33 THEN FALSE
  ELSE
    LET found == FindTwoSpaces(readString)
        value == SubSeq(readString, (IF found = -1 THEN 1 ELSE found + 2) + 1,
                        Len(readString))
        key == IF found = -1 THEN readString ELSE SubSeq(readString, 1, found)
    IN  IF \A i \in 1..Len(value) : value[i] = Space THEN FALSE
        ELSE \E k \in DOMAIN LogKeyField \ TextKeys :
               /\ key = LogKey[k]
               /\ IF k \in StolKeys THEN stol(TrimSpaces(value)).processed = 0
                  ELSE stod(TrimSpaces(value)).processed = 0

\* "7 8 9", a value every branch accepts
PlainValue == <<55, 32, 56, 32, 57>>

\* lines about one key: a comment, a key that is not known, no value, no run
\* of two spaces (the key alone, or one space before the value), and the key,
\* two or four spaces and a value; for the text keys also values of n - 2,
\* n - 1, n and n + 2 letters, n being the size of the member
LogLineOf(c) ==
  CASE c.form = "comment" -> <<33>> \o LogKey[c.key] \o Spaces(2) \o c.value
    [] c.form = "unknown" -> LogKey[c.key] \o <<120>> \o Spaces(2) \o c.value
    [] c.form = "no value" -> LogKey[c.key] \o Spaces(c.gap)
    [] c.form = "no gap" -> LogKey[c.key] \o (IF c.gap = 0 THEN <<>> ELSE <<Space>> \o c.value)
    [] c.form = "keyed" -> LogKey[c.key] \o Spaces(c.gap) \o c.value

LogLineCases ==
  {[key |-> key, form |-> form, gap |-> gap, value |-> PlainValue] :
     key \in DOMAIN LogKeyField,
     form \in {"comment", "unknown", "no value", "no gap", "keyed"},
     gap \in {0, 2, 4}}
    \cup
  {[key |-> key, form |-> "keyed", gap |-> 2,
    value |-> [k \in 1..(TextCapacity[LogKeyField[key]] + over) |-> 65 + (k % 26)]] :
     key \in TextKeys, over \in {-2, -1, 0, 2}}

InitAIMLog ==
  /\ session = "aimlog"
  /\ step = "start"
  /\ fn = "ReadProcessingLog"
  /\ input \in {c \in LogLineCases :
                  /\ c.form \in {"comment", "unknown"} => c.gap = 2
                  /\ c.form = "no value" => c.gap # 0
                  /\ c.form = "no gap" => c.gap # 4
                  /\ c.form = "keyed" => c.gap # 0
                  /\ (c.key = "CalibrationData" /\ c.form = "keyed")
                       => Len(c.value) <= TextCapacity.m_CalibrationData}
  /\ target = <<>>
  /\ output = None

\* AIMHeaderIO::ReadProcessingLog(infile, offset, length) on a stream that
\* holds the line at offset, by a reader that holds the test header
CallReadProcessingLogOfLine ==
  /\ session = "aimlog" /\ step = "start"
  /\ \E readString \in {LogLineOf(input)} :
       /\ target' = readString \o <<NewLine>>
       /\ IF LogLineThrows(readString)
          THEN /\ step' = "line threw"
               /\ output' = [before |-> TestAIMHeader, read |-> TestAIMHeader]
          ELSE /\ step' = "line read"
               /\ output' = [before |-> TestAIMHeader,
                             read |-> ReadProcessingLog(TestAIMHeader,
                                                        readString \o <<NewLine>>).headerData]
  /\ UNCHANGED <<session, fn, input>>

NextAIMLog == CallReadProcessingLogOfLine

SpecAIMLog == InitAIMLog /\ [][NextAIMLog]_vars

-----------------------------------------------------------------------------
(* PadString on a destination with room after the field, and DecodeDate on  *)
(* the 8 bytes of any timestamp (itkScancoDataManipulation.cxx).            *)

\* what the destination holds before the call
Untouched == 170

\* sources of up to MaxSourceLen characters, letters and spaces
MaxSourceLen == 4

PadSources ==
  UNION {[1..n -> {65, Space}] : n \in 0..MaxSourceLen}

\* the field lengths passed to PadString
PadLengths == {0, 1, 3, 4}

\* timestamps whose low word has bit 31 clear or set, in 1858, in 2020 and
\* beyond the range of a signed count
TimestampInputs ==
  {<<b1, b2, b3, b4, 0, 0, b7, b8>> :
     b1 \in {0, 255}, b2 \in {0, 255}, b3 \in {0, 255}, b4 \in {0, 127, 128, 255},
     b7 \in {0, 180}, b8 \in {0, 128}}

InitFields ==
  /\ session = "field"
  /\ step = "start"
  /\ \/ fn = "PadString"
        /\ input \in {[source |-> source, length |-> length] :
                        source \in PadSources, length \in PadLengths}
     \/ fn = "DecodeDate" /\ input \in TimestampInputs
  /\ target = <<>>
  /\ output = None

\* PadString(dest, source, length), dest pointing to 2 * length + 1 bytes
CallPadString ==
  /\ session = "field" /\ fn = "PadString" /\ step = "start"
  /\ target' = Store([k \in 1..(2 * input.length + 1) |-> Untouched], 0,
                     PadString(input.source, input.length))
  /\ output' = [written |-> Len(PadString(input.source, input.length))]
  /\ step' = "padded"
  /\ UNCHANGED <<session, fn, input>>

\* DecodeDate(data, year, month, day, hour, minute, second, millis)
CallDecodeDateOfBytes ==
  /\ session = "field" /\ fn = "DecodeDate" /\ step = "start"
  /\ output' = DecodeDate(input)
  /\ step' = "date decoded"
  /\ UNCHANGED <<session, fn, input, target>>

NextFields ==
  \/ CallPadString
  \/ CallDecodeDateOfBytes

SpecFields == InitFields /\ [][NextFields]_vars

-----------------------------------------------------------------------------
(* Successive ReadHeader(filename) calls of one codec on one header: the    *)
(* blocks obtained with new, the block m_RawHeader points to and the stream *)
(* (itkScancoHeaderIO.cxx, itkISQHeaderIO.cxx, itkAIMHeaderIO.cxx).  The    *)
(* state of m_RawHeader is "null", "live" (it points to a block that has    *)
(* not been deleted) or "dangling" (it points to a deleted block).          *)

\* the number of calls in a sequence
MaxReads == 3

\* the AIM v020 file WriteHeader writes for the volume of 4 x 4 x 3 voxels
WrittenAIMFile ==
  AIMWriteHeader(
    [TestAIMHeader EXCEPT
       !.m_PixelData = [m_Dimensions |-> <<4, 4, 3>>,
                        m_Spacing |-> <<Frac(1, 2), Frac(1, 2), Frac(1, 4)>>,
                        m_Origin |-> <<Frac(0, 1), Frac(0, 1), Frac(1, 2)>>,
                        m_ComponentType |-> 3]], 96).file

\* files handed to the AIM reader: the written file; the same with an image
\* structure of 0 bytes and a log of 100 (a header of 120 bytes), with a log
\* length of -600, with a pre-header length of 21, cut to 100 bytes; a file
\* with the ISQ tag
AIMReadFiles ==
  Local(WrittenAIMFile, LAMBDA w :
    {w,
     CraftedAIMFile(w, 4, 0, 100, Len(w)),
     CraftedAIMFile(w, 4, AIMV020StructHeaderSize, -600, Len(w)),
     Store(w, 0, EncodeInt(21)),
     SubSeq(w, 1, 100),
     ISQVersionString \o Zeros(ScancoHeaderBlockSize - 16)})

\* an ISQ file with an extended header of four blocks
WrittenISQFile ==
  CraftedFile([multi |-> TRUE, calIndex |-> 1, before |-> 0, calBlocks |-> 2,
               counted |-> TRUE, dataOffset |-> 0, beyond |-> 0])

\* files handed to the ISQ reader: the file with the extended header; the same
\* cut to 600 bytes, with a data offset of 0 (no extended header) and with a
\* data offset of -2; a file without the ISQ tag
ISQReadFiles ==
  Local(WrittenISQFile, LAMBDA w :
    {w,
     SubSeq(w, 1, 600),
     Store(w, 508, EncodeInt(0)),
     Store(w, 508, EncodeInt(-2)),
     AIM030String \o Zeros(ScancoHeaderBlockSize - 15)})

\* what one call does with the blocks: blocksLeft blocks obtained with new
\* are not deleted when the call is left, the block m_RawHeader pointed to is
\* "kept" or "deleted", and m_RawHeader is the "previous" pointer, points to
\* a block obtained by the call ("headerBytes") or was not assigned after the
\* delete ("dangling")
HeapAfter(heap, effect) ==
  [rawHeader |-> CASE effect.rawHeader = "headerBytes" -> "live"
                   [] effect.rawHeader = "dangling" ->
                        (IF heap.rawHeader = "null" THEN "null" ELSE "dangling")
                   [] OTHER -> heap.rawHeader,
   rawBlocks |-> heap.rawBlocks
                   - (IF effect.previousRawHeader = "deleted" /\ heap.rawHeader = "live"
                      THEN 1 ELSE 0)
                   + (IF effect.rawHeader = "headerBytes" THEN 1 ELSE 0),
   blocksLeft |-> heap.blocksLeft + effect.blocksLeft,
   deletedTwice |-> heap.deletedTwice
                      \/ (effect.previousRawHeader = "deleted" /\ heap.rawHeader = "dangling")]

\* the blocks of ISQHeaderIO::ReadHeader: imageInfo is not deleted when the
\* version is rejected; with a header of more than 512 bytes m_RawHeader is
\* deleted and assigned a new block, unless new throws
ISQHeapEffect(file, r) ==
  IF CheckVersion(Load(file, 0, 16)) # CTHEADER
  THEN [blocksLeft |-> 1, previousRawHeader |-> "kept", rawHeader |-> "previous"]
  ELSE IF r.threw
  THEN [blocksLeft |-> 0, previousRawHeader |-> "deleted", rawHeader |-> "dangling"]
  ELSE IF r.allocated > 0
  THEN [blocksLeft |-> 0, previousRawHeader |-> "deleted", rawHeader |-> "headerBytes"]
  ELSE [blocksLeft |-> 0, previousRawHeader |-> "kept", rawHeader |-> "previous"]

InitReads ==
  /\ session = "reads"
  /\ step = "start"
  /\ fn \in {"AIMHeaderIO", "ISQHeaderIO"}
  /\ input = (IF fn = "AIMHeaderIO" THEN AIMReadFiles ELSE ISQReadFiles)
  /\ target = <<>>
  /\ output = [headerData |-> IF fn = "AIMHeaderIO" THEN FreshAIMHeader ELSE FreshHeader,
               heap |-> [rawHeader |-> "null", rawBlocks |-> 0, blocksLeft |-> 0,
                         deletedTwice |-> FALSE],
               fileOpen |-> FALSE, reads |-> 0]

\* ScancoHeaderIO::ReadHeader(filename) of an AIMHeaderIO: the stream is a
\* local of the call and is closed when the call is left, also by a throw
CallReadAIMFile ==
  /\ session = "reads" /\ fn = "AIMHeaderIO" /\ output.reads < MaxReads
  /\ \E file \in input, stale \in StaleMemories :
       \E r \in {AIMReadHeaderOfStream(output.headerData, file, stale)} :
          /\ target' = file
          /\ step' = IF r.threw THEN "read threw" ELSE "read returned"
          /\ output' = [headerData |-> r.headerData,
                        heap |-> HeapAfter(output.heap, r),
                        fileOpen |-> FALSE, reads |-> output.reads + 1]
  /\ UNCHANGED <<session, fn, input>>

\* ScancoHeaderIO::ReadHeader(filename) of an ISQHeaderIO
CallReadISQFile ==
  /\ session = "reads" /\ fn = "ISQHeaderIO" /\ output.reads < MaxReads
  /\ \E file \in input :
       \E r \in {ISQReadHeaderInMemory(output.headerData, file,
                                       Zeros(4 * ScancoHeaderBlockSize))} :
          /\ target' = file
          /\ step' = IF r.threw THEN "read threw" ELSE "read returned"
          /\ output' = [headerData |-> r.headerData,
                        heap |-> HeapAfter(output.heap, ISQHeapEffect(file, r)),
                        fileOpen |-> FALSE, reads |-> output.reads + 1]
  /\ UNCHANGED <<session, fn, input>>

NextReads ==
  \/ CallReadAIMFile
  \/ CallReadISQFile

SpecReads == InitReads /\ [][NextReads]_vars

-----------------------------------------------------------------------------
(* ScancoHeaderIO::ReadHeader(filename) and WriteHeader(imageSize,          *)
(* filename) of an ISQHeaderIO (itkScancoHeaderIO.cxx). The object is its   *)
(* m_FileName and its header; the disk maps a path to the bytes of the file *)
(* there, or to None where there is no file.                                *)

\* paths at which a file can be created; the empty path and a path in a
\* directory that does not exist cannot be opened
OpenablePaths == {"a.isq", "b.isq"}

FileNames == OpenablePaths \cup {"", "nodir/c.isq"}

NoFilenameProvided == "No filename provided."

NoImageBytes == "ScancoHeaderWriter: No image bytes to write"

CouldNotOpen == "Could not open file"

\* ScancoHeaderIO::WriteHeader(imageSize, filename), then the WriteHeader of
\* ISQHeaderIO on the opened stream
HeaderIOWriteHeader(io, imageSize, filename) ==
  IF filename = "" /\ io.m_FileName = ""
  THEN [threw |-> NoFilenameProvided, m_FileName |-> io.m_FileName, opened |-> None,
        disk |-> io.disk, result |-> 0]
  ELSE IF imageSize = 0
  THEN [threw |-> NoImageBytes, m_FileName |-> io.m_FileName, opened |-> None,
        disk |-> io.disk, result |-> 0]
  ELSE
    Local(IF filename # "" THEN filename ELSE io.m_FileName, LAMBDA fileName :
      IF filename \notin OpenablePaths
      THEN [threw |-> CouldNotOpen, m_FileName |-> fileName, opened |-> filename,
            disk |-> io.disk, result |-> 0]
      ELSE
        Local(ISQWriteHeader(io.headerData, imageSize), LAMBDA w :
          [threw |-> IF w.threw THEN "ISQHeaderIO::WriteHeader" ELSE None,
           m_FileName |-> fileName, opened |-> filename,
           disk |-> [io.disk EXCEPT ![filename] = w.file],
           result |-> w.bytesWritten]))

\* ScancoHeaderIO::ReadHeader(filename), then the ReadHeader of ISQHeaderIO on
\* the opened stream
HeaderIOReadHeader(io, filename) ==
  IF filename = "" /\ io.m_FileName = ""
  THEN [threw |-> NoFilenameProvided, m_FileName |-> io.m_FileName, opened |-> None,
        disk |-> io.disk, result |-> 0]
  ELSE
    Local(IF filename # "" THEN filename ELSE io.m_FileName, LAMBDA fileName :
      IF fileName \notin OpenablePaths \/ io.disk[fileName] = None
      THEN [threw |-> CouldNotOpen, m_FileName |-> fileName, opened |-> fileName,
            disk |-> io.disk, result |-> 0]
      ELSE
        Local(ISQReadHeader(FreshHeader, io.disk[fileName]), LAMBDA r :
          [threw |-> IF r.threw THEN "ISQHeaderIO::ReadHeader" ELSE None,
           m_FileName |-> fileName, opened |-> fileName,
           disk |-> io.disk, result |-> r.result]))

\* the file an earlier session wrote
OldFile == ISQWriteHeader(SmallHeader, 48).file

\* the object before the call: any m_FileName, a header with a creation date
\* that parses or one that does not, and a disk with or without files
HeaderIOObjects ==
  [m_FileName : FileNames,
   headerData : {SmallHeader, [SmallHeader EXCEPT !.m_CreationDate = BadDateString]},
   disk : [OpenablePaths -> {None, OldFile}]]

InitFile ==
  /\ session = "file"
  /\ step = "start"
  /\ fn \in {"ReadHeader", "WriteHeader"}
  /\ input \in [io : HeaderIOObjects, filename : FileNames, imageSize : {0, 48}]
  /\ fn = "ReadHeader" => input.imageSize = 0 /\ input.io.headerData = SmallHeader
  /\ target = <<>>
  /\ output = None

CallHeaderIOWriteHeader ==
  /\ session = "file" /\ fn = "WriteHeader" /\ step = "start"
  /\ \E r \in {HeaderIOWriteHeader(input.io, input.imageSize, input.filename)} :
        /\ step' = IF r.threw = None THEN "returned" ELSE "threw"
        /\ output' = r
  /\ UNCHANGED <<session, fn, input, target>>

CallHeaderIOReadHeader ==
  /\ session = "file" /\ fn = "ReadHeader" /\ step = "start"
  /\ \E r \in {HeaderIOReadHeader(input.io, input.filename)} :
        /\ step' = IF r.threw = None THEN "returned" ELSE "threw"
        /\ output' = r
  /\ UNCHANGED <<session, fn, input, target>>

\* the file WriteHeader(imageSize, filename) is meant to produce
OutputPath(io, filename) == IF filename # "" THEN filename ELSE io.m_FileName

\* what the array "char buffer[512]" of CanReadFile can hold before the read
\* fills it: zeros, or the first block of a file read earlier
StaleBuffers == {Zeros(16), ISQVersionString, [k \in 1..16 |-> 255]}

\* the first 16 bytes of the buffer after infile.read(buffer, 512) on a file
\* with these contents: a short file leaves the rest of the buffer as it was
BufferAfterRead(contents, buffer) ==
  [k \in 1..16 |-> IF k <= Len(contents) THEN contents[k] ELSE buffer[k]]

\* ScancoImageIO::CanReadFile(filename), contents being the file at that path
ImageIOCanReadFile(contents, buffer) ==
  IF contents = None THEN FALSE
  ELSE ImageIOCheckVersion(BufferAfterRead(contents, buffer)) > 0

\* after WriteHeader has returned or thrown, CanReadFile on the output path,
\* and CheckVersion on the first block read from it
CallCanReadFile ==
  /\ session = "file" /\ fn = "WriteHeader" /\ step \in {"returned", "threw"}
  /\ \E buffer \in StaleBuffers :
       \E contents \in {IF OutputPath(input.io, input.filename) \in OpenablePaths
                        THEN output.disk[OutputPath(input.io, input.filename)]
                        ELSE None} :
          output' = [written |-> output,
                     canRead |-> ImageIOCanReadFile(contents, buffer),
                     versionType |-> IF contents = None THEN UNRECOGNIZED
                                     ELSE CheckVersion(BufferAfterRead(contents, buffer))]
  /\ step' = "probed"
  /\ UNCHANGED <<session, fn, input, target>>

NextFile ==
  \/ CallHeaderIOWriteHeader
  \/ CallHeaderIOReadHeader
  \/ CallCanReadFile

SpecFile == InitFile /\ [][NextFile]_vars

-----------------------------------------------------------------------------
(* The payload decoder. ScancoImageIO records the compression mode of an    *)
(* AIM file in m_Compression (itkScancoImageIO.cxx 605-616); the code that  *)
(* decodes the payload is not part of the sources, and is modelled here as  *)
(* the description of decode_payload gives it. src is the payload after its *)
(* size prefix.                                                             *)

Uncompressed == 0

PackedBits == 177

BinaryRunLength == 178

ByteRunLength == 194

\* the failure of a decoder whose input runs out
Truncated == [status |-> "Truncated", dst |-> <<>>]

\* the result of a decoder that filled dst
Decoded(dst) == [status |-> "ok", dst |-> dst]

\* product(dims) * component_size
PayloadSize(dims, componentSize) == dims[1] * dims[2] * dims[3] * componentSize

\* mode 0: copy product(dims) * component_size bytes
DecodeUncompressed(src, size) ==
  IF Len(src) < size THEN Truncated ELSE Decoded(SubSeq(src, 1, size))

\* mode 0xb1: one input bit per voxel, 2 x 2 x 2 voxels per input byte, and
\* the value byte after the last of them
DecodePackedBits(src, dims) ==
  LET cx == (dims[1] + 1) \div 2
      cy == (dims[2] + 1) \div 2
      cz == (dims[3] + 1) \div 2
      v == IF src[cx * cy * cz + 1] = 0 THEN 127 ELSE src[cx * cy * cz + 1]
      Voxel(i, j, k) ==
        LET byte == src[(k \div 2) * cy * cx + (j \div 2) * cx + (i \div 2) + 1]
            bit == (i % 2) + 2 * (j % 2) + 4 * (k % 2)
        IN  ((byte \div Pow2(bit)) % 2) * v
  IN  IF Len(src) < cx * cy * cz + 1 THEN Truncated
      ELSE Decoded([p \in 1..PayloadSize(dims, 1) |->
                      Voxel((p - 1) % dims[1], ((p - 1) \div dims[1]) % dims[2],
                            (p - 1) \div (dims[1] * dims[2]))])

RECURSIVE BinaryRuns(_, _, _, _)
\* mode 0xb2 from input position pos on: each byte is a run of the current
\* value, after which the value flips; 255 is a run of 254 without the flip
BinaryRuns(src, pos, current, remaining) ==
  IF remaining = 0 THEN Decoded(<<>>)
  ELSE IF pos > Len(src) THEN Truncated
  ELSE
    Local(Min(IF src[pos] = 255 THEN 254 ELSE src[pos], remaining), LAMBDA length :
      Local(BinaryRuns(src, pos + 1, IF src[pos] = 255 THEN current ELSE 3 - current,
                       remaining - length), LAMBDA rest :
        IF rest = Truncated THEN Truncated
        ELSE Decoded([k \in 1..length |-> src[current]] \o rest.dst)))

\* mode 0xb2: the first two bytes are the two values
DecodeBinaryRunLength(src, size) ==
  IF Len(src) < 2 THEN Truncated ELSE BinaryRuns(src, 3, 1, size)

RECURSIVE ByteRunsUnclamped(_, _, _)
\* the mutant of ByteRuns: every run is emitted in full
ByteRunsUnclamped(src, pos, remaining) ==
  IF remaining <= 0 THEN Decoded(<<>>)
  ELSE IF pos + 1 > Len(src) THEN Truncated
  ELSE
    Local(ByteRunsUnclamped(src, pos + 2, remaining - src[pos]), LAMBDA rest :
      IF rest = Truncated THEN Truncated
      ELSE Decoded([k \in 1..src[pos] |-> src[pos + 1]] \o rest.dst))

RECURSIVE ByteRuns(_, _, _)
\* mode 0xc2 from input position pos on: pairs of a length and a value
ByteRuns(src, pos, remaining) ==
  IF remaining = 0 THEN Decoded(<<>>)
  ELSE IF pos + 1 > Len(src) THEN Truncated
  ELSE
    Local(Min(src[pos], remaining), LAMBDA length :
      Local(ByteRuns(src, pos + 2, remaining - length), LAMBDA rest :
        IF rest = Truncated THEN Truncated
        ELSE Decoded([k \in 1..length |-> src[pos + 1]] \o rest.dst)))

\* decode_payload(src, dst, mode, dims): what it leaves in dst, or Truncated
DecodePayload(src, mode, dims, componentSize) ==
  CASE mode = Uncompressed -> DecodeUncompressed(src, PayloadSize(dims, componentSize))
    [] mode = PackedBits -> DecodePackedBits(src, dims)
    [] mode = BinaryRunLength -> DecodeBinaryRunLength(src, PayloadSize(dims, 1))
    [] mode = ByteRunLength -> ByteRuns(src, 1, PayloadSize(dims, 1))

MaxPayloadLen == 5

RECURSIVE SeqsUpTo(_, _)
\* the sequences over a set of bytes of length at most n
SeqsUpTo(bytes, n) ==
  IF n = 0 THEN {<<>>}
  ELSE LET shorter == SeqsUpTo(bytes, n - 1)
       IN  shorter \cup {Append(q, b) : q \in {r \in shorter : Len(r) = n - 1}, b \in bytes}

\* payloads of up to MaxPayloadLen bytes, for volumes of 1, 4, 12 and 256
\* voxels; components of two bytes occur in uncompressed volumes only
PayloadInputs ==
  {x \in [src : SeqsUpTo({0, 3, 255}, MaxPayloadLen),
          extra : {<<0>>, <<255, 3>>},
          mode : {Uncompressed, PackedBits, BinaryRunLength, ByteRunLength},
          dims : {<<1, 1, 1>>, <<2, 2, 1>>, <<3, 2, 2>>, <<16, 16, 1>>},
          componentSize : {1, 2}] :
     x.componentSize = 2 => x.mode = Uncompressed /\ x.dims = <<2, 2, 1>>}

InitPayload ==
  /\ session = "payload"
  /\ step = "start"
  /\ fn = "decode_payload"
  /\ input \in PayloadInputs
  /\ target = <<>>
  /\ output = None

\* decode_payload on src
CallDecodePayload ==
  /\ session = "payload" /\ step = "start"
  /\ output' = DecodePayload(input.src, input.mode, input.dims, input.componentSize)
  /\ step' = "decoded"
  /\ UNCHANGED <<session, fn, input, target>>

\* decode_payload on the same payload followed by further bytes
CallDecodeLongerPayload ==
  /\ session = "payload" /\ step = "decoded"
  /\ target' = DecodePayload(input.src \o input.extra, input.mode, input.dims,
                             input.componentSize)
  /\ step' = "decoded again"
  /\ UNCHANGED <<session, fn, input, output>>

NextPayload ==
  \/ CallDecodePayload
  \/ CallDecodeLongerPayload

SpecPayload == InitPayload /\ [][NextPayload]_vars

-----------------------------------------------------------------------------
(* The two header codecs side by side: a session is an ISQ session or an   *)
(* AIM session.                                                             *)

InitHeaderIO == InitISQ \/ InitAIM

NextHeaderIO == NextISQ \/ NextAIM

SpecHeaderIO == InitHeaderIO /\ [][NextHeaderIO]_vars

-----------------------------------------------------------------------------
(* Properties of the primitive codec (SpecCodec)                           *)

DateDecoded == session = "codec" /\ fn = "date" /\ step = "decoded"

\* C1: every valid calendar date that is encoded with EncodeDateFromString
\* and decoded with DecodeDate and DateToString comes back with the same
\* year, month, day, hour, minute, second and millisecond.
C1_DateRoundTrip == DateDecoded => output = input

\* the prefix is the text "AIMDATA_V030   " (15 characters and the NUL)
IsAIM030Prefix(header) == header = AIM030String \o <<0>>

\* the two little-endian sizes of an AIM v020 pre-header
IsAIM020Prefix(header) ==
  /\ header[1] + TwoTo8 * header[2] + TwoTo16 * header[3] = 20 /\ header[4] = 0
  /\ header[5] + TwoTo8 * header[6] + TwoTo16 * header[7] = 140 /\ header[8] = 0

\* C4: the version detector returns ISQ (1) for "CTDATA-HEADER_V1", AIM_V030
\* (3) for "AIMDATA_V030   ", AIM_V020 (2) only for the sizes 20 and 140, and
\* Unknown (0) for every other 16-byte prefix.
C4_VersionClassified ==
  (session = "codec" /\ step = "returned") =>
    output = IF input = ISQVersionString THEN CTHEADER
             ELSE IF IsAIM030Prefix(input) THEN AIM_030
             ELSE IF IsAIM020Prefix(input) THEN AIM_020
             ELSE UNRECOGNIZED

\* C10: DecodeInt of the 4 bytes of EncodeInt(n) is n and the bytes are the
\* little-endian bytes of n; DecodeInt64 of the 8 bytes of EncodeInt64(n) is
\* n and the bytes are the little-endian bytes of n.
C10_IntRoundTrip ==
  /\ (session = "codec" /\ fn = "int" /\ step = "decoded") =>
       /\ output = input
       /\ Len(target) = 4
       /\ \A k \in 1..4 : target[k] \in 0..255
       /\ target[1] + TwoTo8 * target[2] + TwoTo16 * target[3] = input % TwoTo24
       /\ target[4] = (input \div TwoTo24) % TwoTo8
  /\ (session = "codec" /\ fn = "int64" /\ step = "decoded") =>
       /\ output = input
       /\ Len(target) = 8
       /\ \A k \in 1..8 : target[k] \in 0..255
       /\ target[1] + TwoTo8 * target[2] + TwoTo16 * target[3] = input.c
       /\ target[4] + TwoTo8 * target[5] + TwoTo16 * target[6] = input.b
       /\ target[7] + TwoTo8 * target[8] = input.a % TwoTo16

\* a negative 32-bit value and a negative 64-bit value have been through
\* their encoder and decoder
C10_Witness ==
  /\ session = "codec" /\ step = "decoded"
  /\ \/ fn = "int" /\ input = INT_MIN /\ target = <<0, 0, 0, 128>>
     \/ fn = "int64" /\ input.a = -256 /\ input.b = 1 /\ target[4] = 1 /\ target[8] = 255

FloatExponentField(f) == 2 * (f[4] % 128) + (f[3] \div 128)

FloatDecoded == session = "codec" /\ fn = "float" /\ step = "decoded"

DoubleDecoded == session = "codec" /\ fn = "double" /\ step = "decoded"

\* C11 as stated: every finite float and every finite double comes back from
\* its encoder and decoder unchanged
C11_EveryFiniteValueRoundTrips ==
  (FloatDecoded \/ DoubleDecoded) => output = input

\* C11: a finite float whose exponent field is at most 252 (magnitude up to
\* FLT_MAX/4) and a finite double whose exponent field is at most 2044
\* (magnitude up to DBL_MAX/4) come back from encoder and decoder unchanged,
\* subnormals included, and the encoded bytes are the scaled value's word bits
\* 16..23, 24..31, 0..7, 8..15 per 32-bit word, high word first
C11_RoundTripBelowOverflow ==
  /\ FloatDecoded =>
       /\ target = Local(FloatTimes4(input), LAMBDA v : <<v[3], v[4], v[1], v[2]>>)
       /\ FloatQuarter(<<target[3], target[4], target[1], target[2]>>) = output
       /\ FloatExponentField(input) <= 252 => output = input
  /\ DoubleDecoded =>
       (ExponentField(input) <= 2044 => output = input)

\* a subnormal float, which the scaling changes, has been through encoder and
\* decoder and came back unchanged
C11_Witness ==
  /\ FloatDecoded
  /\ FloatExponentField(input) = 0
  /\ input[1] = 3
  /\ target # <<input[3], input[4], input[1], input[2]>>
  /\ output = input

\* C16: the date string written at local time t has as its month token the
\* abbreviation of t's calendar month, the (tm_mon + 1)-th of JAN..DEC, and
\* never XXX, in the form D-MMM-YYYY HH:MM:SS.mmm
C16_CurrentMonthToken ==
  (session = "codec" /\ fn = "GetCurrentDateString" /\ step = "date written") =>
     LET dash == Len(NatDigits(input.tm_mday)) + 1
         token == SubSeq(output, dash + 1, dash + 3)
     IN  /\ output[dash] = 45 /\ output[dash + 4] = 45
         /\ token = MonthChars(monthStrings[input.tm_mon + 2])
         /\ token # MonthChars("XXX")
         /\ Len(output) = dash + 21

-----------------------------------------------------------------------------
(* Properties of the ISQ header codec (SpecISQ)                            *)

ISQWritten == session = "isq" /\ step = "written"

ISQRead == session = "isq" /\ step = "read"

\* C2: the header read back from the file WriteHeader(H) produced equals H
\* on every persisted field (all but modification_date and mu_scaling).
C2_ISQRoundTrip ==
  ISQRead =>
    LET H == input.headerData
        R == output.headerData
    IN  /\ R.m_PatientIndex = H.m_PatientIndex
        /\ R.m_ScannerID = H.m_ScannerID
        /\ R.m_CreationDate = H.m_CreationDate
        /\ R.m_PixelData.m_Dimensions = H.m_PixelData.m_Dimensions
        /\ R.m_SliceThickness = H.m_SliceThickness
        /\ R.m_SliceIncrement = H.m_SliceIncrement
        /\ R.m_StartPosition = H.m_StartPosition
        /\ R.m_DataRange = H.m_DataRange
        /\ R.m_NumberOfSamples = H.m_NumberOfSamples
        /\ R.m_NumberOfProjections = H.m_NumberOfProjections
        /\ R.m_ScanDistance = H.m_ScanDistance
        /\ R.m_ScannerType = H.m_ScannerType
        /\ R.m_SampleTime = H.m_SampleTime
        /\ R.m_MeasurementIndex = H.m_MeasurementIndex
        /\ R.m_Site = H.m_Site
        /\ R.m_ReferenceLine = H.m_ReferenceLine
        /\ R.m_ReconstructionAlg = H.m_ReconstructionAlg
        /\ R.m_PatientName = H.m_PatientName
        /\ R.m_Energy = H.m_Energy
        /\ R.m_Intensity = H.m_Intensity
        /\ R.m_CalibrationData = H.m_CalibrationData
        /\ R.m_RescaleType = H.m_RescaleType
        /\ R.m_RescaleUnits = H.m_RescaleUnits
        /\ R.m_RescaleSlope = H.m_RescaleSlope
        /\ R.m_RescaleIntercept = H.m_RescaleIntercept
        /\ R.m_MuWater = H.m_MuWater

\* C8: every written ISQ file carries the tag "CTDATA-HEADER_V1" in its
\* first 16 bytes and a stored mu_scaling of 1, whatever the header held.
C8_WriterForcesTagAndScaling ==
  ISQWritten =>
    /\ Load(target, 0, 16) = ISQVersionString
    /\ IntAt(target, 88) = 1

\* C9 as stated: the writer emits one 512-byte block with data_type 3 and
\* data_offset 0, so that the payload begins at byte 512.
C9_OneBlockNoExtendedHeader ==
  ISQWritten =>
    /\ Len(target) = ScancoHeaderBlockSize
    /\ output.bytesWritten = ScancoHeaderBlockSize
    /\ IntAt(target, 16) = 3
    /\ IntAt(target, 508) = 0

\* C9 as the code has it: the writer emits the 512-byte block with data_type
\* 3 and data_offset 4, then a MultiHeader block and a three-block calibration
\* record; it returns 2560 = (data_offset + 1) * 512, where the payload begins.
C9_FiveBlocksWithExtendedHeader ==
  ISQWritten =>
    /\ Len(target) = 5 * ScancoHeaderBlockSize
    /\ output.bytesWritten = Len(target)
    /\ output.bytesWritten = (IntAt(target, 508) + 1) * ScancoHeaderBlockSize
    /\ IntAt(target, 16) = 3
    /\ IntAt(target, 508) = 4
    /\ Load(target, ScancoHeaderBlockSize + 8, 16) = MultiHeaderString
    /\ Load(target, 2 * ScancoHeaderBlockSize + 136, 16) = CalibrationString
    /\ IntAt(target, 2 * ScancoHeaderBlockSize + 152) = 2

\* a header has been written and bytes follow its first block
C9_Witness ==
  /\ ISQWritten
  /\ Len(target) > ScancoHeaderBlockSize
  /\ output.bytesWritten > ScancoHeaderBlockSize
  /\ input.headerData.m_CalibrationData # <<>>


\* C21: the byte count WriteHeader returns is (d + 1) * 512 for the data offset
\* d it stored at offset 508, is the number of bytes it put on the stream, and
\* is the header size ReadHeader returns for that stream, so the first byte
\* after the header read is the first byte after the header written
C21_HeaderSizeAgrees ==
  /\ ISQWritten =>
       /\ output.bytesWritten = (IntAt(target, 508) + 1) * 512
       /\ output.bytesWritten = Len(target)
  /\ ISQRead =>
       /\ output.result = output.bytesWritten
       /\ output.result = (IntAt(target, 508) + 1) * 512
       /\ output.result = Len(target)

\* a stream written by WriteHeader has been read back and ReadHeader returned
\* the 2560 bytes written
C21_Witness ==
  /\ ISQRead
  /\ output.bytesWritten = 2560 /\ output.result = 2560
  /\ IntAt(target, 508) = 4

-----------------------------------------------------------------------------
(* Properties of the ISQ reader on streams of any origin (SpecISQFile)      *)

ISQFileRead == session = "isqfile" /\ step = "read"

\* where the directory block of the stream begins
DirectoryStart ==
  IF strncmpEq(Load(target, ScancoHeaderBlockSize + 8, 16), MultiHeaderString, 16)
  THEN 2 * ScancoHeaderBlockSize ELSE ScancoHeaderBlockSize

RECURSIVE BlocksBefore(_)
\* the block counts of the directory entries before entry i, added up
BlocksBefore(i) ==
  IF i = 0 THEN 0
  ELSE BlocksBefore(i - 1) + IntAt(target, DirectoryStart + (i - 1) * 128 + 24)

\* the first byte after the directory block and the blocks of the entries
\* that precede the calibration entry
CalibrationStart ==
  DirectoryStart + ScancoHeaderBlockSize
    + BlocksBefore(input.calIndex) * ScancoHeaderBlockSize

\* C22: when the stream holds all the blocks its data offset counts and one
\* of the four directory entries, whichever, is named "Calibration     " with
\* a block count of 2, the calibration fields of the header are decoded from
\* the block that starts after the directory block and the blocks of the
\* entries before it: calibration data at 28, rescale type at 632, units at
\* 648, slope at 664, intercept at 672, mu_water at 688
C22_CalibrationFoundInAnyEntry ==
  (ISQFileRead /\ input.counted /\ input.calIndex < 4 /\ input.calBlocks = 2) =>
     LET R == output.headerData
         start == CalibrationStart
     IN  /\ Load(target, DirectoryStart + input.calIndex * 128 + 8, 16) = CalibrationString
         /\ R.m_CalibrationData = StripString(target, start + 28, 64)
         /\ R.m_RescaleType = IntAt(target, start + 632)
         /\ R.m_RescaleUnits = StripString(target, start + 648, 16)
         /\ R.m_RescaleSlope = DecodeDouble(Load(target, start + 664, 8))
         /\ R.m_RescaleIntercept = DecodeDouble(Load(target, start + 672, 8))
         /\ R.m_MuWater = DecodeDouble(Load(target, start + 688, 8))

\* C23: whatever the data offset, the MultiHeader marker and the directory of
\* the stream, ReadExtendedHeader reads no byte at or after buffer + length,
\* where buffer + length is the end of the raw header (of 512 + length bytes);
\* the copy of the calibration record ends inside the raw header
C23_ExtendedHeaderReadInBounds ==
  (session = "isqfile" /\ step # "start") => output.reach <= output.allocated

-----------------------------------------------------------------------------
(* Properties of the header readers, stated for SpecHeaderIO.               *)

AIMHeaderRead == session = "aim" /\ step = "header read"

\* the stream just read is not a RAD stream: its data type is not 9 and its
\* third physical dimension is not 0
ISQReadNonRAD == ISQRead /\ IntAt(target, 16) # 9 /\ IntAt(target, 64) # 0

\* physdim[2] * 1e-3 / pixdim[2] of the stream
StoredSliceSpacing == FracDiv(Milli(IntAt(target, 64)), Frac(IntAt(target, 52), 1))

\* C12: after an AIM header read, slice thickness and slice increment equal
\* the spacing of the third axis; after a non-RAD ISQ header read whose stored
\* slice thickness and slice increment both differ from physdim[2]*1e-3/pixdim[2]
\* by less than 1.1e-3 mm, they equal the spacing of the third axis too
C12_SliceThicknessIsSpacing ==
  /\ AIMHeaderRead =>
       /\ output.read.m_SliceThickness = output.read.m_PixelData.m_Spacing[3]
       /\ output.read.m_SliceIncrement = output.read.m_PixelData.m_Spacing[3]
  /\ (/\ ISQReadNonRAD
      /\ WithinTruncation(StoredSliceSpacing, Milli(IntAt(target, 68)))
      /\ WithinTruncation(StoredSliceSpacing, Milli(IntAt(target, 72)))) =>
       /\ output.headerData.m_SliceThickness = output.headerData.m_PixelData.m_Spacing[3]
       /\ output.headerData.m_SliceIncrement = output.headerData.m_PixelData.m_Spacing[3]

\* an ISQ stream of 3 slices over 1.000 mm with stored slice thickness 0.333
\* and increment 0.333 has been read: both were replaced by a third
C12_Witness ==
  /\ ISQReadNonRAD
  /\ IntAt(target, 64) = 1000 /\ IntAt(target, 52) = 3
  /\ IntAt(target, 68) = 333 /\ IntAt(target, 72) = 333
  /\ output.headerData.m_SliceThickness = Frac(1, 3)
  /\ output.headerData.m_SliceIncrement = Frac(1, 3)

\* start + spacing[2] * (pixel_dimensions[2] - 1) of a header
EndOfLastSlice(h) ==
  FracAdd(h.m_StartPosition,
          FracMul(h.m_PixelData.m_Spacing[3], Frac(h.m_PixelData.m_Dimensions[3] - 1, 1)))

\* C13: after every successful header read, of an ISQ stream, a RAD stream or
\* an AIM file with or without the log key "Position Slice 1 [um]", the end
\* position is the start position plus spacing[2] * (pixel_dimensions[2] - 1)
C13_EndPositionFromStart ==
  /\ AIMHeaderRead => output.read.m_EndPosition = EndOfLastSlice(output.read)
  /\ ISQRead => output.headerData.m_EndPosition = EndOfLastSlice(output.headerData)

\* the stored value, in micrometres, differs from physdim[2] / pixdim[2] of the
\* stream by less than 1.1
StoredNearComputed(stored) ==
  10 * Abs(IntAt(target, 64) - stored * IntAt(target, 52)) < 11 * Abs(IntAt(target, 52))

\* C20: after the read of an ISQ stream that is not a RAD stream, the slice
\* thickness is physdim[2]*1e-3/pixdim[2] when the stored thickness differs
\* from it by less than 1.1e-3 mm and the stored thickness otherwise, and the
\* slice increment follows the same rule on its own stored value
C20_TruncatedSliceSpacingReplaced ==
  ISQReadNonRAD =>
    /\ output.headerData.m_SliceThickness =
         IF StoredNearComputed(IntAt(target, 68)) THEN StoredSliceSpacing
         ELSE Milli(IntAt(target, 68))
    /\ output.headerData.m_SliceIncrement =
         IF StoredNearComputed(IntAt(target, 72)) THEN StoredSliceSpacing
         ELSE Milli(IntAt(target, 72))

\* a stream of three slices with physdim[2] = 1000 has been read whose stored
\* thickness 334 was replaced by 1/3 mm and whose stored increment 250 was kept
C20_Witness ==
  /\ ISQReadNonRAD
  /\ IntAt(target, 52) = 3 /\ IntAt(target, 64) = 1000
  /\ IntAt(target, 68) = 334 /\ IntAt(target, 72) = 250
  /\ output.headerData.m_SliceThickness = Frac(1, 3)
  /\ output.headerData.m_SliceIncrement = Milli(250)

\* a stored thickness of 332 is 1.33 micrometres from the computed spacing and
\* has been kept
StoredThicknessKept ==
  /\ ISQReadNonRAD
  /\ IntAt(target, 52) = 3 /\ IntAt(target, 64) = 1000 /\ IntAt(target, 68) = 332
  /\ output.headerData.m_SliceThickness = Milli(332)

\* the stream just read is a RAD stream
ISQReadRAD == ISQRead /\ (IntAt(target, 16) = 9 \/ IntAt(target, 64) = 0)

\* pixdim[i] of the stream, raised to 1 when it is below 1
SanitisedPixdim(i) ==
  LET pixdim == IntAt(target, 44 + 4 * (i - 1))
  IN  IF pixdim < 1 THEN 1 ELSE pixdim

\* physdim[i] of the stream, replaced by 1 when it is 0
SanitisedPhysdim(i) ==
  LET physdim == IntAt(target, 56 + 4 * (i - 1))
  IN  IF physdim = 0 THEN 1 ELSE physdim

\* a finite value other than 0
FiniteNonZero(x) == x.d # 0 /\ x.n # 0

\* C19: after ISQHeaderIO has read a pre-header, whatever pixdim and physdim it
\* holds, every pixel dimension is at least 1, every spacing is the sanitised
\* physdim over the sanitised pixdim scaled by 1e-3 (1e-6 for RAD), finite and
\* not 0, the spacing of the third axis of a RAD stream is 1.0, and the origin
\* is 0 on all axes
C19_SpacingFromSanitisedDimensions ==
  ISQRead =>
    \A i \in 1..3 :
       /\ output.headerData.m_PixelData.m_Dimensions[i] >= 1
       /\ output.headerData.m_PixelData.m_Spacing[i] =
            IF ISQReadRAD /\ i = 3 THEN Frac(1, 1)
            ELSE Frac(SanitisedPhysdim(i),
                      (IF ISQReadRAD THEN 1000000 ELSE 1000) * SanitisedPixdim(i))
       /\ FiniteNonZero(output.headerData.m_PixelData.m_Spacing[i])
       /\ output.headerData.m_PixelData.m_Origin[i] = 0

-----------------------------------------------------------------------------
(* Properties of ScancoHeaderIO on files, stated for SpecFile.              *)

\* C15: ReadHeader(filename) and WriteHeader(imageSize, filename) throw for a
\* missing name exactly when the argument and m_FileName are both empty;
\* otherwise the file they open is the one named by the argument, or by
\* m_FileName when the argument is empty, and m_FileName holds that name
C15_EmptyArgumentUsesFileName ==
  (session = "file" /\ step \in {"returned", "threw"}) =>
     /\ (output.threw = NoFilenameProvided) <=>
          (input.filename = "" /\ input.io.m_FileName = "")
     /\ output.opened # None =>
          /\ output.opened = IF input.filename # "" THEN input.filename
                             ELSE input.io.m_FileName
          /\ output.m_FileName = output.opened

\* C17: after a WriteHeader that ended with an error (no image bytes, a
\* creation date that does not parse, a path that cannot be opened), on a path
\* that held no file before, the path holds no file that CanReadFile or the
\* version detector accepts
C17_FailedWriteLeavesNoScancoFile ==
  (/\ session = "file" /\ step = "probed"
   /\ output.written.threw # None
   /\ OutputPath(input.io, input.filename) \in OpenablePaths =>
        input.io.disk[OutputPath(input.io, input.filename)] = None) =>
     /\ ~output.canRead
     /\ output.versionType = UNRECOGNIZED

-----------------------------------------------------------------------------
(* Properties of the payload decoder, stated for SpecPayload.               *)

RECURSIVE RunTotal(_, _, _)
\* the number of output bytes the runs src[from], src[from + stride], ... give
RunTotal(src, from, stride) ==
  IF from + stride - 1 > Len(src) THEN 0
  ELSE (IF stride = 1 /\ src[from] = 255 THEN 254 ELSE src[from])
         + RunTotal(src, from + stride, stride)

\* the input ends before it has given size output bytes
InputRunsOut(src, mode, dims, size) ==
  CASE mode = Uncompressed -> Len(src) < size
    [] mode = PackedBits ->
         Len(src) < ((dims[1] + 1) \div 2) * ((dims[2] + 1) \div 2) * ((dims[3] + 1) \div 2) + 1
    [] mode = BinaryRunLength -> Len(src) < 2 \/ RunTotal(src, 3, 1) < size
    [] mode = ByteRunLength -> RunTotal(src, 1, 2) < size

\* C18: for each of the modes 0, 0xb1, 0xb2 and 0xc2 and every output size,
\* decode_payload either fills exactly product(dims) * component_size output
\* bytes or fails with Truncated; it fails exactly when the input runs out
\* before the output is full; and bytes that follow an input that fills the
\* output do not change the result
C18_ExactOutputSize ==
  (session = "payload" /\ step # "start") =>
     LET size == PayloadSize(input.dims, input.componentSize)
     IN  /\ output.status = "ok" => Len(output.dst) = size
         /\ output.status = "Truncated" <=>
              InputRunsOut(input.src, input.mode, input.dims, size)
         /\ step = "decoded again" =>
              /\ target.status = "ok" => Len(target.dst) = size
              /\ target.status = "Truncated" <=>
                   InputRunsOut(input.src \o input.extra, input.mode, input.dims, size)
              /\ output.status = "ok" => target = output

\* a 16 x 16 x 1 volume has been decoded from two runs of 255 in mode 0xb2,
\* the second of them cut at the end of the output, and again with two more
\* bytes after them
C18_Witness ==
  /\ session = "payload" /\ step = "decoded again"
  /\ input.mode = BinaryRunLength /\ input.dims = <<16, 16, 1>>
  /\ input.src = <<0, 3, 255, 255>> /\ input.extra = <<255, 3>>
  /\ output.status = "ok" /\ Len(output.dst) = 256
  /\ target = output

-----------------------------------------------------------------------------
(* Properties of the image IO, stated for SpecIO.                           *)

ToLower(c) == IF c >= 65 /\ c <= 90 THEN c + 32 ELSE c

EndsWithIgnoringCase(path, extension) ==
  /\ Len(path) >= Len(extension)
  /\ \A i \in 1..Len(extension) :
        ToLower(path[Len(path) - Len(extension) + i]) = extension[i]

HeaderLoaded ==
  /\ session = "io" /\ fn = "ReadImageInformation" /\ step = "read"
  /\ input.bytesRead >= 512

\* C5: CanWriteFile(path) returns true exactly when the path ends in .isq or
\* .aim, compared without regard to case, and false for every other path
\* (a further extension appended, .rsq, .rad, the empty name).
C5_CanWriteIsqAndAimOnly ==
  (session = "io" /\ fn = "CanWriteFile" /\ step = "returned") =>
     (output = (\/ EndsWithIgnoringCase(input, <<46, 105, 115, 113>>)
                \/ EndsWithIgnoringCase(input, <<46, 97, 105, 109>>)))

\* C6: after every successful read of a file whose header gives
\* mu_scaling > 1 and mu_water > 0, the header reports rescale_intercept =
\* -1000 and rescale_slope * mu_water * mu_scaling = 1000, for ISQ and AIM.
C6_HounsfieldRescale ==
  (HeaderLoaded /\ FracLess(Frac(1, 1), output.MuScaling)
                /\ FracLess(Frac(0, 1), output.MuWater)) =>
     /\ output.RescaleIntercept = Frac(-1000, 1)
     /\ FracMul(FracMul(output.RescaleSlope, output.MuWater), output.MuScaling)
          = Frac(1000, 1)

\* C7: after an ISQ or AIM header is loaded, rescale_slope is the slope
\* stored in the file divided by mu_scaling exactly when mu_scaling > 1; for
\* every mu_scaling <= 1 (0, 1, negative values) it is the stored slope.
C7_SlopeDividedOnlyAboveOne ==
  (HeaderLoaded /\ input.hasCalibration) =>
     output.RescaleSlope =
       IF FracLess(Frac(1, 1), output.MuScaling)
       THEN FracDiv(input.RescaleSlope, output.MuScaling)
       ELSE input.RescaleSlope


\* 0.70329999923706055, the float nearest to 0.7033
DefaultMuWater == Frac(11799416, TwoTo24)

\* C14: every ReadImageInformation starts from the defaults, whatever the
\* object held before: after reading a file without calibration the header
\* reports mu_water 0.70329999923706055, and mu_scaling 1.0 and rescale slope
\* 1.0 when the file gives no mu_scaling either
C14_ReadStartsFromDefaults ==
  (/\ session = "io" /\ fn = "ReadImageInformation" /\ step \in {"read", "read again"}
   /\ ~input.hasCalibration) =>
     /\ output.MuWater = DefaultMuWater
     /\ ~input.hasMuScaling =>
          /\ output.MuScaling = Frac(1, 1)
          /\ output.RescaleSlope = Frac(1, 1)

-----------------------------------------------------------------------------
(* Properties of the AIM processing log, stated for SpecAIM.                *)

\* the fields ReadProcessingLog recognises a key for
LogFields ==
  {"m_ModificationDate", "m_CreationDate", "m_ScanDimensionsPixels",
   "m_ScanDimensionsPhysical", "m_PatientName", "m_PatientIndex", "m_MeasurementIndex",
   "m_Site", "m_ScannerID", "m_ScannerType", "m_StartPosition", "m_NumberOfSamples",
   "m_NumberOfProjections", "m_ScanDistance", "m_SampleTime", "m_ReferenceLine",
   "m_ReconstructionAlg", "m_Energy", "m_Intensity", "m_MuScaling", "m_CalibrationData",
   "m_RescaleType", "m_RescaleUnits", "m_RescaleSlope", "m_RescaleIntercept",
   "m_MuWater", "m_DataRange"}

\* C3: for every AIM header, the log written by WriteProcessingLog, parsed by
\* ReadProcessingLog into a fresh header, gives every field that has a key
\* the value it had in the header written, empty text fields included.
C3_LogRoundTrip ==
  (session = "aim" /\ step = "read") =>
     \A f \in LogFields : output.read[f] = output.headerData[f]

-----------------------------------------------------------------------------
(* Properties of the AIM header codec on streams (SpecAIMFile) *)

AIMFileWritten == session = "aimfile" /\ step \in {"file written", "file read"}

AIMFileReadBack == session = "aimfile" /\ step = "file read"

\* the version tag of the file in target comes before its pre-header
TargetTagSize == IF strcmpEq(target, AIM030String) THEN AIMVersionTagSize ELSE 0

\* field k = 0..4 of the pre-header of the file in target
PreHeaderField(k) ==
  IF TargetTagSize = 0 THEN DecodeInt(Load(target, 4 * k, 4))
  ELSE LongFromInt64(DecodeInt64(Load(target, AIMVersionTagSize + 8 * k, 8)))

\* C24: for both AIM versions the pre-header WriteHeader writes holds the
\* number of bytes written for the pre-header, for the image structure and
\* for the processing log, and 0 as the length of the associated data; the
\* value WriteHeader returns is the final position of the stream, 16 for the
\* tag of AIM v030 plus the three lengths, and it is the value ReadHeader
\* returns when the file is read back
C24_PreHeaderLengthsAgree ==
  /\ AIMFileWritten =>
       /\ TargetTagSize = (IF input.m_Version = AIM030String THEN 16 ELSE 0)
       /\ PreHeaderField(0) = (IF TargetTagSize = 0 THEN 20 ELSE 40)
       /\ PreHeaderField(1) = (IF TargetTagSize = 0 THEN 140 ELSE 224)
       /\ Load(target, TargetTagSize + PreHeaderField(0) + PreHeaderField(1),
               PreHeaderField(2))
            = WriteProcessingLog(output.headerData)
       /\ Len(target) = TargetTagSize + PreHeaderField(0) + PreHeaderField(1)
                          + PreHeaderField(2)
       /\ PreHeaderField(3) = output.imageSize
       /\ PreHeaderField(4) = 0
       /\ output.written.result = Len(target)
       /\ output.written.result = output.written.tellp
  /\ (session = "aimfile" /\ step = "read threw") => FALSE
  /\ AIMFileReadBack => output.read.result = output.written.result

C24_Witness ==
  /\ AIMFileReadBack
  /\ input.m_Version = AIM030String
  /\ PreHeaderField(2) > ScancoHeaderBlockSize
  /\ output.written.result = 16 + 40 + 224 + PreHeaderField(2)
  /\ output.read.result = output.written.result

V020FileReadBack ==
  /\ AIMFileReadBack
  /\ input.m_Version = AIM020String
  /\ output.read.result = 20 + 140 + PreHeaderField(2)

\* C25: whatever lengths the pre-header of the file declares, ReadHeader
\* copies into the image structure no more bytes than the structure holds
\* and takes them from the part of headerBytes that the read filled
C25_StructCopyInBounds ==
  (session = "aimfile"
     /\ step \in {"file read", "crafted read", "crafted fault"}) =>
    /\ ~ULess(output.read.capacity, output.read.copied)
    /\ ~ULess(output.read.filled, output.read.copyFrom + output.read.copied)

\* the files WriteHeader wrote are read within bounds
WrittenFileCopyInBounds ==
  AIMFileReadBack =>
    /\ output.read.copied = output.read.capacity
    /\ output.read.copyFrom + output.read.copied <= output.read.filled

\* a file that declares an image structure of 300 bytes is read to the end
StructOverflowReturns ==
  /\ session = "aimfile" /\ step = "crafted read"
  /\ output.read.copied = 300
  /\ output.read.capacity \in {140, 224}

-----------------------------------------------------------------------------
(* Properties of the parser of the AIM processing log on single lines       *)
(* (SpecAIMLog)                                                             *)

AIMLogLineDone == session = "aimlog" /\ step \in {"line read", "line threw"}

\* every member but the named ones is as it was before the line
UnchangedBut(fields) ==
  \A f \in DOMAIN output.before \ fields : output.read[f] = output.before[f]

\* C26: a line that begins with '!', a line whose key is not a known key, a
\* line without a value and a line without a run of two spaces leave every
\* member of the header as it was; a line made of a known key, two or more
\* spaces and a value changes the member of that key and no other
C26_LogLineFrame ==
  AIMLogLineDone =>
    /\ input.form \in {"comment", "unknown", "no value", "no gap"} => UnchangedBut({})
    /\ input.form = "keyed" => UnchangedBut({LogKeyField[input.key]})

\* what holds of the same lines: comments, unknown keys, lines without a
\* value and lines with one space before the value change nothing
LogLineSkipped ==
  (AIMLogLineDone
     /\ \/ input.form \in {"comment", "unknown", "no value"}
        \/ input.form = "no gap" /\ input.gap = 2) => UnchangedBut({})

\* a line with a known key and a value that fits changes the member of the
\* key, and the end position with the start position
KeyedLineFrame ==
  (AIMLogLineDone /\ input.form = "keyed"
     /\ (input.key \in TextKeys
          => Len(input.value) < TextCapacity[LogKeyField[input.key]])) =>
    UnchangedBut({LogKeyField[input.key]}
                   \cup (IF input.key = "StartPosition" THEN {"m_EndPosition"} ELSE {}))

\* the line "Time" changes the modification date to "ime"
KeyAloneChangesText ==
  /\ session = "aimlog" /\ step = "line read"
  /\ input.form = "no gap" /\ input.gap = 0 /\ input.key = "Time"
  /\ output.read.m_ModificationDate = <<105, 109, 101>>

\* C27: whatever the length of a value of the log, the text member it is
\* stored in receives at most as many characters as it holds, less one for
\* the terminator (32 bytes for the two dates, 42 for the patient name, 66
\* for the calibration data, 18 for the units), and nothing outside the
\* member is written
C27_TextFieldsWithinCapacity ==
  (AIMLogLineDone /\ input.form = "keyed" /\ input.key \in TextKeys) =>
    /\ Len(output.read[LogKeyField[input.key]]) + 1 <= TextCapacity[LogKeyField[input.key]]
    /\ UnchangedBut({LogKeyField[input.key]})

\* values shorter than the member are stored whole and nothing else changes
ShortTextStored ==
  (AIMLogLineDone /\ input.form = "keyed" /\ input.key \in TextKeys
     /\ Len(input.value) < TextCapacity[LogKeyField[input.key]]) =>
    /\ output.read[LogKeyField[input.key]] = input.value
    /\ UnchangedBut({LogKeyField[input.key]})

\* a creation date of 34 letters leaves its last two in the modification date
LongCreationDateSpills ==
  /\ session = "aimlog" /\ step = "line read"
  /\ input.key = "CreationDate" /\ Len(input.value) = 34
  /\ output.read.m_ModificationDate = SubSeq(input.value, 33, 34)

-----------------------------------------------------------------------------
(* Properties of PadString and DecodeDate on any argument (SpecFields)      *)

Padded == session = "field" /\ step = "padded"

\* C28: PadString(dest, source, n) writes n bytes to dest, the first
\* min(len(source), n) bytes of source and then spaces up to n bytes in
\* all, and leaves every byte from dest + n on as it was
C28_PadWritesExactlyLength ==
  Padded =>
    /\ output.written = input.length
    /\ \A k \in 1..Len(target) :
         target[k] = IF k <= Min(Len(input.source), input.length) THEN input.source[k]
                     ELSE IF k <= input.length THEN Space
                     ELSE Untouched

\* what PadString does write: the field is as the claim says, and as many
\* spaces follow it as characters were copied
PadWritesLengthAndCopied ==
  Padded =>
    /\ output.written = input.length + Min(Len(input.source), input.length)
    /\ \A k \in 1..Len(target) :
         target[k] = IF k <= Min(Len(input.source), input.length) THEN input.source[k]
                     ELSE IF k <= output.written THEN Space
                     ELSE Untouched

PadOverrun ==
  /\ Padded
  /\ input.source = <<65, 65>> /\ input.length = 4
  /\ target = <<65, 65, 32, 32, 32, 32, 170, 170, 170>>

TimestampDecoded == session = "field" /\ step = "date decoded"

\* the date and time of a count of 100-ns units: the count over 10000 plus
\* 2400001 * 86400000 milliseconds, split into Julian day and time of day
DateOfCount(tVMS) ==
  LET time0 == U64Add(U64DivSmall(tVMS, 10000), VMSEpochMillis)
      julianDay == U64ToInt(U64DivMillisPerDay(time0))
      time1 == U64Sub(time0, U64MulMillisPerDay(U64FromInt(julianDay)))
      g     == GregorianDateFromJulian(julianDay)
      hour  == U64ToInt(U64DivMillisPerHour(time1))
      time2 == U64Sub(time1, U64MulMillisPerHour(U64FromInt(hour)))
      minute == U64ToInt(U64DivSmall(time2, millisPerMinute))
      time3 == U64Sub(time2, U64MulSmall(U64FromInt(minute), millisPerMinute))
      second == U64ToInt(U64DivSmall(time3, millisPerSecond))
      time4 == U64Sub(time3, U64MulSmall(U64FromInt(second), millisPerSecond))
  IN  [year |-> g.year, month |-> g.month, day |-> g.day, hour |-> hour,
       minute |-> minute, second |-> second, millis |-> U64ToInt(time4)]

\* C29: DecodeDate takes the 8 bytes as one little-endian 64-bit count, the
\* low word unsigned also when its bit 31 is set, and gives the date and
\* time of that count
C29_TimestampIsOneCount ==
  TimestampDecoded => output = DateOfCount(input)

\* with bit 31 of the low word clear the 8 bytes are read as one count
LowWordBelowBit31 ==
  (TimestampDecoded /\ input[4] < 128) => output = DateOfCount(input)

\* with bit 31 set the count is taken 2^32 units too low
LowWordSignExtended ==
  (TimestampDecoded /\ input[4] >= 128) =>
    output = DateOfCount(U64Sub(input, <<0, 0, 0, 0, 1, 0, 0, 0>>))

-----------------------------------------------------------------------------
(* Properties of the blocks and the stream over successive reads            *)
(* (SpecReads)                                                              *)

\* C30: after any sequence of header reads on one header, whether a read
\* returned or threw, every temporary block the codec obtained has been
\* deleted, the block a raw header pointed to has been deleted when the raw
\* header was replaced, at most one raw header block is live and the header
\* points to it, and the input file is closed
C30_BlocksFreedAndFileClosed ==
  (session = "reads" /\ output.reads > 0) =>
    /\ output.heap.blocksLeft = 0
    /\ ~output.heap.deletedTwice
    /\ output.heap.rawBlocks <= 1
    /\ output.heap.rawHeader # "dangling"
    /\ output.heap.rawBlocks = 1 => output.heap.rawHeader = "live"
    /\ ~output.fileOpen

\* the stream is closed after every call, and m_RawHeader never counts for
\* more blocks than are live
StreamClosedAfterRead ==
  (session = "reads" /\ output.reads > 0) =>
    /\ ~output.fileOpen
    /\ output.heap.rawHeader = "live" => output.heap.rawBlocks >= 1

\* two reads of files whose header is longer than a block leave one block
TwoLongReadsLeaveOneBlock ==
  /\ session = "reads" /\ output.reads >= 2 /\ step = "read returned"
  /\ output.heap = [rawHeader |-> "live", rawBlocks |-> 1, blocksLeft |-> 0,
                    deletedTwice |-> FALSE]

\* a read of a small AIM header after another read leaves two blocks
EarlierRawHeaderLeft ==
  /\ session = "reads" /\ fn = "AIMHeaderIO"
  /\ output.heap.rawBlocks = 2

\* a rejected file leaves the temporary blocks of the call
TemporaryBlocksLeft ==
  /\ session = "reads" /\ step = "read threw"
  /\ output.heap.blocksLeft > 0

\* a header size that cannot be allocated leaves m_RawHeader dangling
RawHeaderLeftDangling ==
  /\ session = "reads" /\ fn = "ISQHeaderIO"
  /\ output.heap.rawHeader = "dangling"

=============================================================================
